---- MODULE Spec2Model ----
(***************************************************************************)
(* A model of the 16-bit emulator and its instruction codec.               *)
(*                                                                         *)
(* The repository holds several drafts of the machine.  Each draft is      *)
(* modelled from its own files and run by its own specification:           *)
(*   Spec      src/src/emulator/{mod,memory,execution}.rs (CPU + MMU),     *)
(*             one arithmetic-logic instruction                            *)
(*   SpecRun   the same draft, short runs of stack instructions            *)
(*   SpecIsa   src/src/isa.rs encoder and decoder                          *)
(*   SpecEmu   src/src/emulator.rs + src/src/isa.rs (flat memory)          *)
(*   SpecMain  src/src/main.rs (flat memory)                               *)
(*   SpecMem   src/src/memory.rs (Memory for arrays and slices)            *)
(*   SpecReset src/emulator/src/lib.rs reset, src/src/emulator/mod.rs      *)
(*             reset_cpu                                                   *)
(*   SpecStep  src/emulator/src/{lib,cpu,memory,step}.rs with src/utils    *)
(*   SpecDecode the decoders of src/src/isa.rs and src/src/main.rs on raw  *)
(*             bytes                                                       *)
(*   SpecJump  src/src/emulator/execution.rs, one conditional jump         *)
(*   SpecCond  src/utils/src/condition.rs mnemonics evaluated by           *)
(*             src/src/emulator.rs check_condition                         *)
(*   SpecIrq   src/src/emulator/execution.rs interrupt entry and return    *)
(*   SpecHello the program of src/src/emulator/main.rs run by that draft   *)
(*   SpecMap   the memory map of src/src/emulator/memory.rs under loads,   *)
(*             stores and stack instructions                               *)
(*   SpecPair  register pairs: src/src/compile/mod.rs emits,               *)
(*             src/utils/src/register.rs decodes                           *)
(*   SpecAsm   src/src/compile/mod.rs compile on short sources             *)
(*   SpecInt   src/src/emulator.rs interrupt requests and returns          *)
(*   SpecLoop  src/src/isa.rs loop instructions under src/src/emulator.rs  *)
(*   SpecChain src/utils/src/chained_io.rs reads, writes and seeks         *)
(*   SpecParse src/src/compile/mod.rs parse_instruction on one line        *)
(*   SpecLine  src/src/compile/mod.rs compile on a line of text            *)
(***************************************************************************)
EXTENDS Integers, Sequences, FiniteSets, TLC

(***************************************************************************)
(* Bounds of the model.                                                    *)
(***************************************************************************)
\* Operand words are taken within Edge of 0, of the sign boundary and of 2^16.
Edge == 1
\* Shift counts run over 0..MaxShift.
MaxShift == 17
\* Number of instructions a run executes.
MaxSteps == 2

(***************************************************************************)
(* Machine arithmetic.                                                     *)
(***************************************************************************)
W16 == 2 ^ 16
W8 == 2 ^ 8

Pow2(n) == 2 ^ n

\* u16 as i16
AsI16(x) == IF x >= 32768 THEN x - W16 ELSE x

\* iN as uN (two's complement)
AsU16(x) == x % W16

FitsI16(x) == x >= -32768 /\ x <= 32767

Bit(x, n) == (x \div Pow2(n)) % 2

RECURSIVE BitAndN(_, _, _)
BitAndN(x, y, n) ==
    IF n = 0 THEN 0
    ELSE 2 * BitAndN(x \div 2, y \div 2, n - 1)
         + (IF x % 2 = 1 /\ y % 2 = 1 THEN 1 ELSE 0)

RECURSIVE BitOrN(_, _, _)
BitOrN(x, y, n) ==
    IF n = 0 THEN 0
    ELSE 2 * BitOrN(x \div 2, y \div 2, n - 1)
         + (IF x % 2 = 1 \/ y % 2 = 1 THEN 1 ELSE 0)

RECURSIVE BitXorN(_, _, _)
BitXorN(x, y, n) ==
    IF n = 0 THEN 0
    ELSE 2 * BitXorN(x \div 2, y \div 2, n - 1)
         + (IF (x % 2) # (y % 2) THEN 1 ELSE 0)

BitNot16(x) == (W16 - 1) - x
BitNot8(x) == (W8 - 1) - x

\* u16::overflowing_add / overflowing_sub: <<wrapped result, carry>>
overflowing_add(x, y) == <<(x + y) % W16, x + y >= W16>>
overflowing_sub(x, y) == <<(x - y) % W16, x < y>>

\* i16::overflowing_add(..).1 / overflowing_sub(..).1 on the reinterpreted words
overflowing_add_i16(x, y) == ~FitsI16(AsI16(x) + AsI16(y))
overflowing_sub_i16(x, y) == ~FitsI16(AsI16(x) - AsI16(y))

\* u16::carrying_add / borrowing_sub: two overflowing steps, carries or-ed
carrying_add(x, y, cin) ==
    LET s1 == overflowing_add(x, y)
        s2 == overflowing_add(s1[1], IF cin THEN 1 ELSE 0)
    IN  <<s2[1], s1[2] \/ s2[2]>>

borrowing_sub(x, y, bin) ==
    LET s1 == overflowing_sub(x, y)
        s2 == overflowing_sub(s1[1], IF bin THEN 1 ELSE 0)
    IN  <<s2[1], s1[2] \/ s2[2]>>

\* i16::carrying_add(..).1 / borrowing_sub(..).1: the two step overflows differ
carrying_add_i16(x, y, cin) ==
    LET o1 == overflowing_add_i16(x, y)
        w1 == (x + y) % W16
        o2 == overflowing_add_i16(w1, IF cin THEN 1 ELSE 0)
    IN  o1 # o2

borrowing_sub_i16(x, y, bin) ==
    LET o1 == overflowing_sub_i16(x, y)
        w1 == (x - y) % W16
        o2 == overflowing_sub_i16(w1, IF bin THEN 1 ELSE 0)
    IN  o1 # o2

\* u16::overflowing_shl / overflowing_shr: the count is masked to 4 bits and
\* the flag says whether the count was 16 or more
overflowing_shl(x, n) ==
    LET k == n % 16 IN <<(x % Pow2(16 - k)) * Pow2(k), n >= 16>>
overflowing_shr(x, n) ==
    LET k == n % 16 IN <<x \div Pow2(k), n >= 16>>

rotate_left(x, n) ==
    LET k == n % 16 IN (x % Pow2(16 - k)) * Pow2(k) + (x \div Pow2(16 - k))

rotate_right(x, n) ==
    LET k == n % 16 IN (x \div Pow2(k)) + (x % Pow2(k)) * Pow2(16 - k)

\* u16::overflowing_neg / i16::overflowing_neg(..).1
overflowing_neg(x) == <<(W16 - x) % W16, x # 0>>
overflowing_neg_i16(x) == x = 32768

\* u16::trailing_zeros
RECURSIVE trailing_zeros(_)
trailing_zeros(x) ==
    IF x = 0 THEN 16 ELSE IF x % 2 = 1 THEN 0 ELSE 1 + trailing_zeros(x \div 2)

(***************************************************************************)
(* Flags (src/src/flag.rs).  The CPU draft keeps them in a u8.             *)
(***************************************************************************)
ZERO == 0
SIGN == 1
CARRY == 2
OVERFLOW == 3
INTERRUPT == 6
HALT == 7

get_flag(status, flag) == Bit(status, flag) = 1

\* set_flag assigning the mask instead of or-ing it in
set_flag_Assigns(status, flag, value) ==
    IF value
    THEN Pow2(flag)
    ELSE BitAndN(status, BitNot8(Pow2(flag)), 8)

set_flag(status, flag, value) ==
    IF value
    THEN BitOrN(status, Pow2(flag), 8)
    ELSE BitAndN(status, BitNot8(Pow2(flag)), 8)

(***************************************************************************)
(* State.                                                                  *)
(***************************************************************************)
VARIABLES
    cpu,        \* CPU of the CPU draft: a, b, c, d, pc, sp, flags (u8), ir_flags
    ram,        \* MMU.ram.data, the non-zero bytes only
    rom,        \* MMU.rom.data, the non-zero bytes only
    locked,     \* MMU.rom.locked
    stdout,     \* the characters print! has written
    emu,        \* Emulator of the flat-memory drafts (isa.rs / main.rs)
    arr,        \* a byte array used through the Memory trait
    bytes,      \* the bytes the encoder produced
    decoded,    \* what the decoder returned for them
    crashed,    \* the process has panicked
    overflow_checks, \* the build traps arithmetic overflow (debug) or wraps (release)
    phase,      \* "new", "ready" (host has set the registers), "done"
    steps,      \* instructions executed so far
    prev,       \* the machine before the last instruction
    last,       \* the last instruction executed
    prev2,      \* the machine before the instruction before the last
    last2       \* the instruction before the last

vars == <<cpu, ram, rom, locked, stdout, emu, arr, bytes, decoded, crashed,
          overflow_checks, phase, steps, prev, last, prev2, last2>>

cpuVars == <<cpu, ram, rom, locked, stdout>>
histVars == <<prev, last, prev2, last2>>
otherDrafts == <<emu, arr, bytes, decoded>>

(***************************************************************************)
(* Memory of the CPU draft (src/src/emulator/memory.rs).                   *)
(***************************************************************************)
RAM_SIZE == 12288

EmptyMem == [x \in {} |-> 0]

\* data[address] of a zero-initialised array kept as its non-zero bytes
Peek(data, address) == IF address \in DOMAIN data THEN data[address] ELSE 0

Poke(data, address, value) ==
    IF value = 0
    THEN [x \in DOMAIN data \ {address} |-> data[x]]
    ELSE [x \in DOMAIN data \cup {address} |-> IF x = address THEN value ELSE data[x]]

\* A machine as one value: what the instruction operators take and return.
Machine == [cpu |-> cpu, ram |-> ram, rom |-> rom, locked |-> locked,
            stdout |-> stdout, crashed |-> crashed]

Panic(s) == [s EXCEPT !.crashed = TRUE]

\* RAM<N>::read: data[address], an index panic at or beyond N
RAM_read(s, address) ==
    [ok |-> address < RAM_SIZE, val |-> Peek(s.ram, address)]

\* RAM<N>::write
RAM_write(s, address, value) ==
    IF address < RAM_SIZE
    THEN [s EXCEPT !.ram = Poke(s.ram, address, value)]
    ELSE Panic(s)

\* Cartridge::read
Cartridge_read(s, address) == [ok |-> TRUE, val |-> Peek(s.rom, address)]

\* A cartridge whose write does not look at the lock.
Cartridge_write_IgnoresLock(s, address, value) ==
    [s EXCEPT !.rom = Poke(s.rom, address, value)]

\* Cartridge::write: ignored (with a diagnostic) while locked
Cartridge_write(s, address, value) ==
    IF ~s.locked
    THEN [s EXCEPT !.rom = Poke(s.rom, address, value)]
    ELSE s

\* MMU::read; inb is the byte standard input yields (255 at end of input)
MMU_read(s, address, inb) ==
    IF address >= 16384 /\ address <= 28671 THEN RAM_read(s, address)
    ELSE IF address = 32512 THEN [ok |-> TRUE, val |-> inb]
    ELSE IF address >= 32768 /\ address <= 65535
         THEN Cartridge_read(s, address - 32768)
    ELSE [ok |-> FALSE, val |-> 0]

\* MMU::write
MMU_write(s, address, value) ==
    IF address >= 0 /\ address < RAM_SIZE THEN RAM_write(s, address, value)
    ELSE IF address = 32512 THEN [s EXCEPT !.stdout = Append(s.stdout, value)]
    ELSE IF address >= 32768 /\ address < 65536
         THEN Cartridge_write(s, address - 32768, value)
    ELSE Panic(s)

\* Memory::read_word / write_word of the MMU: two byte accesses, low byte first
MMU_read_word(s, address, inb) ==
    LET lo == MMU_read(s, address, inb)
        hi == MMU_read(s, address + 1, inb)
    IN  [ok |-> lo.ok /\ hi.ok, val |-> lo.val + 256 * hi.val]

MMU_write_word(s, address, value) ==
    LET s1 == MMU_write(s, address, value % 256)
    IN  IF s1.crashed THEN s1 ELSE MMU_write(s1, address + 1, value \div 256)

(***************************************************************************)
(* CPU draft: src/src/emulator/cpu.rs and execution.rs.                    *)
(***************************************************************************)
Registers == {"a", "b", "c", "d"}

\* CPU::register / CPU::mut_register
register(s, reg) == s.cpu[reg]
write_register(s, reg, value) == [s EXCEPT !.cpu[reg] = value]

\* `offset as u16` of a signed 8-bit offset
OffsetAsU16(offset) == offset % W16

wrapping_add(x, y) == (x + y) % W16
\* A subtraction that stops at zero instead of wrapping.
wrapping_sub_Saturating(x, y) == IF x < y THEN 0 ELSE x - y

wrapping_sub(x, y) == (x - y) % W16

\* the four set_flag calls that close an arithmetic instruction
ArithFlags(flags, carry, overflow, result) ==
    set_flag(set_flag(set_flag(set_flag(flags, CARRY, carry),
                               OVERFLOW, overflow),
                      ZERO, result = 0),
             SIGN, BitAndN(result, 32768, 16) # 0)

\* the two set_flag calls that close a logical instruction
LogicFlags(flags, result) ==
    set_flag(set_flag(flags, ZERO, result = 0),
             SIGN, BitAndN(result, 32768, 16) # 0)


\* LoadAddressAbsolute / StackOffset / Indirect: a <- byte at address
Cpu_LoadAddress(s, address, inb) ==
    LET r == MMU_read(s, address, inb)
    IN  IF r.ok THEN [s EXCEPT !.cpu.a = r.val] ELSE Panic(s)

\* LoadWordAbsolute / StackOffset / Indirect: a <- word at address
Cpu_LoadWord(s, address, inb) ==
    LET r == MMU_read_word(s, address, inb)
    IN  IF r.ok THEN [s EXCEPT !.cpu.a = r.val] ELSE Panic(s)

\* StoreAddressAbsolute / StackOffset / Indirect: byte at address <- a as u8
Cpu_StoreAddress(s, address) == MMU_write(s, address, s.cpu.a % 256)

\* StoreWordAbsolute / StackOffset / Indirect
Cpu_StoreWord(s, address) == MMU_write_word(s, address, s.cpu.a)


Cpu_And(s, reg) ==
    LET result == BitAndN(s.cpu.a, register(s, reg), 16)
    IN  [s EXCEPT !.cpu.a = result, !.cpu.flags = LogicFlags(@, result)]

Cpu_Or(s, reg) ==
    LET result == BitOrN(s.cpu.a, register(s, reg), 16)
    IN  [s EXCEPT !.cpu.a = result, !.cpu.flags = LogicFlags(@, result)]

Cpu_Xor(s, reg) ==
    LET result == BitXorN(s.cpu.a, register(s, reg), 16)
    IN  [s EXCEPT !.cpu.a = result, !.cpu.flags = LogicFlags(@, result)]

Cpu_ShiftLeft(s, reg) ==
    LET r == overflowing_shl(s.cpu.a, register(s, reg))
    IN  [s EXCEPT !.cpu.a = r[1],
                  !.cpu.flags = LogicFlags(set_flag(@, CARRY, r[2]), r[1])]

Cpu_ShiftRight(s, reg) ==
    LET r == overflowing_shr(s.cpu.a, register(s, reg))
    IN  [s EXCEPT !.cpu.a = r[1],
                  !.cpu.flags = LogicFlags(set_flag(@, CARRY, r[2]), r[1])]

\* Cpu_Add with the signed overflow taken from the unsigned carry
Cpu_Add_CarryAsOverflow(s, reg) ==
    LET r == overflowing_add(s.cpu.a, register(s, reg))
    IN  [s EXCEPT !.cpu.a = r[1],
                  !.cpu.flags = ArithFlags(@, r[2], r[2], r[1])]

Cpu_Add(s, reg) ==
    LET r == overflowing_add(s.cpu.a, register(s, reg))
        overflow == overflowing_add_i16(s.cpu.a, register(s, reg))
    IN  [s EXCEPT !.cpu.a = r[1],
                  !.cpu.flags = ArithFlags(@, r[2], overflow, r[1])]

Cpu_Subtract(s, reg) ==
    LET r == overflowing_sub(s.cpu.a, register(s, reg))
        overflow == overflowing_sub_i16(s.cpu.a, register(s, reg))
    IN  [s EXCEPT !.cpu.a = r[1],
                  !.cpu.flags = ArithFlags(@, r[2], overflow, r[1])]

Cpu_RotateLeft(s, reg) ==
    LET result == rotate_left(s.cpu.a, register(s, reg))
    IN  [s EXCEPT !.cpu.a = result, !.cpu.flags = LogicFlags(@, result)]

Cpu_RotateRight(s, reg) ==
    LET result == rotate_right(s.cpu.a, register(s, reg))
    IN  [s EXCEPT !.cpu.a = result, !.cpu.flags = LogicFlags(@, result)]

\* The overflow operand is register + carry-out as a plain u16 sum: a build
\* with overflow checks panics when it exceeds 0xFFFF, another build wraps.
Cpu_AddWithCarry(s, reg) ==
    LET carry_before == get_flag(s.cpu.flags, CARRY)
        r == carrying_add(s.cpu.a, register(s, reg), carry_before)
        rhs == register(s, reg) + (IF r[2] THEN 1 ELSE 0)
        overflow == carrying_add_i16(s.cpu.a, rhs % W16, carry_before)
    IN  IF rhs >= W16 /\ overflow_checks
        THEN Panic(s)
        ELSE [s EXCEPT !.cpu.a = r[1],
                       !.cpu.flags = ArithFlags(@, r[2], overflow, r[1])]

\* Likewise register - borrow-out as a plain u16 difference.
Cpu_SubtractWithBorrow(s, reg) ==
    LET carry_before == get_flag(s.cpu.flags, CARRY)
        r == borrowing_sub(s.cpu.a, register(s, reg), carry_before)
        rhs == register(s, reg) - (IF r[2] THEN 1 ELSE 0)
        overflow == borrowing_sub_i16(s.cpu.a, rhs % W16, carry_before)
    IN  IF rhs < 0 /\ overflow_checks
        THEN Panic(s)
        ELSE [s EXCEPT !.cpu.a = r[1],
                       !.cpu.flags = ArithFlags(@, r[2], overflow, r[1])]

Cpu_Negate(s, reg) ==
    LET r == overflowing_neg(register(s, reg))
        overflow == overflowing_neg_i16(register(s, reg))
    IN  [s EXCEPT !.cpu.a = r[1],
                  !.cpu.flags = ArithFlags(@, r[2], overflow, r[1])]

Cpu_Not(s, reg) ==
    LET result == BitNot16(register(s, reg))
    IN  [s EXCEPT !.cpu.a = result, !.cpu.flags = LogicFlags(@, result)]

Cpu_Increment(s, reg) ==
    LET r == overflowing_add(register(s, reg), 1)
        overflow == overflowing_add_i16(register(s, reg), 1)
    IN  [s EXCEPT !.cpu[reg] = r[1],
                  !.cpu.flags = ArithFlags(@, r[2], overflow, r[1])]

Cpu_Decrement(s, reg) ==
    LET r == overflowing_sub(register(s, reg), 1)
        overflow == overflowing_sub_i16(register(s, reg), 1)
    IN  [s EXCEPT !.cpu[reg] = r[1],
                  !.cpu.flags = ArithFlags(@, r[2], overflow, r[1])]

\* Cpu_Compare keeping the difference in the accumulator
Cpu_Compare_KeepsResult(s, reg) ==
    LET r == overflowing_sub(s.cpu.a, register(s, reg))
        overflow == overflowing_sub_i16(s.cpu.a, register(s, reg))
    IN  [s EXCEPT !.cpu.a = r[1],
                  !.cpu.flags = ArithFlags(@, r[2], overflow, r[1])]

Cpu_Compare(s, reg) ==
    LET r == overflowing_sub(s.cpu.a, register(s, reg))
        overflow == overflowing_sub_i16(s.cpu.a, register(s, reg))
    IN  [s EXCEPT !.cpu.flags = ArithFlags(@, r[2], overflow, r[1])]

Cpu_Test(s, reg) ==
    LET result == BitAndN(s.cpu.a, register(s, reg), 16)
    IN  [s EXCEPT !.cpu.flags = LogicFlags(@, result)]

Cpu_CompareImmediate(s, reg, imm) ==
    LET r == overflowing_sub(register(s, reg), imm)
        overflow == overflowing_sub_i16(register(s, reg), imm)
    IN  [s EXCEPT !.cpu.flags = ArithFlags(@, r[2], overflow, r[1])]

Cpu_TestImmediate(s, reg, imm) ==
    LET result == BitAndN(register(s, reg), imm, 16)
    IN  [s EXCEPT !.cpu.flags = LogicFlags(@, result)]


Cpu_Call(s, addr) ==
    LET s1 == [s EXCEPT !.cpu.sp = wrapping_sub(@, 2)]
        s2 == MMU_write_word(s1, s1.cpu.sp, s1.cpu.pc)
    IN  IF s2.crashed THEN s2 ELSE [s2 EXCEPT !.cpu.pc = addr]

Cpu_JumpIndirect(s, addr, reg, inb) ==
    LET r == MMU_read_word(s, wrapping_add(addr, register(s, reg)), inb)
    IN  IF r.ok THEN [s EXCEPT !.cpu.pc = r.val] ELSE Panic(s)

\* get_flag(flags, cond) on the u8 flags: 1 << cond overflows the u8 for
\* cond >= 8 (a panic with overflow checks, the count masked to 3 bits without)
Cpu_JumpIf(s, cond, addr) ==
    IF cond >= 8 /\ overflow_checks
    THEN Panic(s)
    ELSE IF get_flag(s.cpu.flags, cond % 8)
         THEN [s EXCEPT !.cpu.pc = addr]
         ELSE s

Cpu_PushPC(s) ==
    LET s1 == [s EXCEPT !.cpu.sp = wrapping_sub(@, 2)]
    IN  MMU_write_word(s1, s1.cpu.sp, s1.cpu.pc)

Cpu_PopPC(s, inb) ==
    LET r == MMU_read_word(s, s.cpu.sp, inb)
    IN  IF r.ok
        THEN [s EXCEPT !.cpu.pc = r.val, !.cpu.sp = wrapping_add(@, 2)]
        ELSE Panic(s)

Cpu_PushFlags(s) ==
    LET s1 == [s EXCEPT !.cpu.sp = wrapping_sub(@, 1)]
    IN  MMU_write(s1, s1.cpu.sp, s1.cpu.flags)

Cpu_PopFlags(s, inb) ==
    LET r == MMU_read(s, s.cpu.sp, inb)
    IN  IF r.ok
        THEN [s EXCEPT !.cpu.flags = r.val, !.cpu.sp = wrapping_add(@, 1)]
        ELSE Panic(s)

Cpu_PushRegister(s, reg) ==
    LET s1 == [s EXCEPT !.cpu.sp = wrapping_sub(@, 2)]
    IN  MMU_write_word(s1, s1.cpu.sp, register(s1, reg))

Cpu_PopRegister(s, reg, inb) ==
    LET r == MMU_read_word(s, s.cpu.sp, inb)
    IN  IF r.ok
        THEN [s EXCEPT !.cpu[reg] = r.val, !.cpu.sp = wrapping_add(s.cpu.sp, 2)]
        ELSE Panic(s)

\* Emulator::handle_interrupt
handle_interrupt(s) ==
    IF s.cpu.ir_flags = 0 THEN s
    ELSE LET irq == trailing_zeros(s.cpu.ir_flags)
             s1 == [s EXCEPT !.cpu.ir_flags = BitAndN(@, BitNot16(Pow2(irq)), 16),
                             !.cpu.sp = wrapping_sub(@, 2)]
             s2 == MMU_write_word(s1, s1.cpu.sp, s1.cpu.pc)
             s3 == [s2 EXCEPT !.cpu.sp = wrapping_sub(@, 1)]
         IN  IF s2.crashed THEN s2 ELSE MMU_write(s3, s3.cpu.sp, s3.cpu.flags)

\* Emulator::handle_return_from_interrupt
handle_return_from_interrupt(s, inb) ==
    LET f == MMU_read(s, s.cpu.sp, inb)
        s1 == [s EXCEPT !.cpu.flags = f.val, !.cpu.sp = wrapping_add(@, 1)]
        w == MMU_read_word(s1, s1.cpu.sp, inb)
        s2 == [s1 EXCEPT !.cpu.pc = w.val, !.cpu.sp = wrapping_add(@, 2)]
    IN  IF ~f.ok THEN Panic(s)
        ELSE IF ~w.ok THEN Panic(s1)
        ELSE handle_interrupt(s2)



\* A WaitForInterrupt that leaves PC after the instruction when idle.
Cpu_WaitForInterrupt_NoRewind(s) ==
    IF s.cpu.ir_flags = 0 THEN s ELSE handle_interrupt(s)

\* execute_cpu_instruction, WaitForInterrupt
Cpu_WaitForInterrupt(s) ==
    IF s.cpu.ir_flags = 0
    THEN [s EXCEPT !.cpu.pc = wrapping_sub(@, 1)]
    ELSE handle_interrupt(s)



\* An instruction of the CPU draft: the variant, its register operands, its
\* 16-bit (or offset) operand val and its small operand n (condition, request
\* number or flag mask); unused operands are "-" or 0.
Ins(op, reg, reg2, val, n) ==
    [op |-> op, reg |-> reg, reg2 |-> reg2, val |-> val, n |-> n]

NoIns == Ins("-", "-", "-", 0, 0)

\* Emulator::execute_cpu_instruction
execute_cpu_instruction(s, i, inb) ==
    CASE i.op = "LoadImmediate" -> write_register(s, i.reg, i.val)
      [] i.op = "LoadAddressAbsolute" -> Cpu_LoadAddress(s, i.val, inb)
      [] i.op = "LoadAddressStackOffset" ->
            Cpu_LoadAddress(s, wrapping_add(s.cpu.sp, OffsetAsU16(i.val)), inb)
      [] i.op = "LoadAddressIndirect" ->
            Cpu_LoadAddress(s, wrapping_add(i.val, register(s, i.reg)), inb)
      [] i.op = "LoadWordAbsolute" -> Cpu_LoadWord(s, i.val, inb)
      [] i.op = "LoadWordStackOffset" ->
            Cpu_LoadWord(s, wrapping_add(s.cpu.sp, OffsetAsU16(i.val)), inb)
      [] i.op = "LoadWordIndirect" ->
            Cpu_LoadWord(s, wrapping_add(i.val, register(s, i.reg)), inb)
      [] i.op = "StoreAddressAbsolute" -> Cpu_StoreAddress(s, i.val)
      [] i.op = "StoreAddressStackOffset" ->
            Cpu_StoreAddress(s, wrapping_add(s.cpu.sp, OffsetAsU16(i.val)))
      [] i.op = "StoreAddressIndirect" ->
            Cpu_StoreAddress(s, wrapping_add(i.val, register(s, i.reg)))
      [] i.op = "StoreWordAbsolute" -> Cpu_StoreWord(s, i.val)
      [] i.op = "StoreWordStackOffset" ->
            Cpu_StoreWord(s, wrapping_add(s.cpu.sp, OffsetAsU16(i.val)))
      [] i.op = "StoreWordIndirect" ->
            Cpu_StoreWord(s, wrapping_add(i.val, register(s, i.reg)))
      [] i.op = "MoveRegister" -> write_register(s, i.reg2, register(s, i.reg))
      [] i.op = "MoveRegisterToSP" -> [s EXCEPT !.cpu.sp = register(s, i.reg)]
      [] i.op = "MoveSPToRegister" -> write_register(s, i.reg, s.cpu.sp)
      [] i.op = "And" -> Cpu_And(s, i.reg)
      [] i.op = "Or" -> Cpu_Or(s, i.reg)
      [] i.op = "Xor" -> Cpu_Xor(s, i.reg)
      [] i.op = "ShiftLeft" -> Cpu_ShiftLeft(s, i.reg)
      [] i.op = "ShiftRight" -> Cpu_ShiftRight(s, i.reg)
      [] i.op = "Add" -> Cpu_Add(s, i.reg)
      [] i.op = "Subtract" -> Cpu_Subtract(s, i.reg)
      [] i.op = "RotateLeft" -> Cpu_RotateLeft(s, i.reg)
      [] i.op = "RotateRight" -> Cpu_RotateRight(s, i.reg)
      [] i.op = "AddWithCarry" -> Cpu_AddWithCarry(s, i.reg)
      [] i.op = "SubtractWithBorrow" -> Cpu_SubtractWithBorrow(s, i.reg)
      [] i.op = "Negate" -> Cpu_Negate(s, i.reg)
      [] i.op = "Not" -> Cpu_Not(s, i.reg)
      [] i.op = "Increment" -> Cpu_Increment(s, i.reg)
      [] i.op = "Decrement" -> Cpu_Decrement(s, i.reg)
      [] i.op = "Compare" -> Cpu_Compare(s, i.reg)
      [] i.op = "Test" -> Cpu_Test(s, i.reg)
      [] i.op = "CompareImmediate" -> Cpu_CompareImmediate(s, i.reg, i.val)
      [] i.op = "TestImmediate" -> Cpu_TestImmediate(s, i.reg, i.val)
      [] i.op = "JumpAbsolute" -> [s EXCEPT !.cpu.pc = i.val]
      [] i.op = "JumpNear" -> 
            [s EXCEPT !.cpu.pc = wrapping_add(@, OffsetAsU16(i.val))]
      [] i.op = "JumpStackOffset" -> 
            [s EXCEPT !.cpu.pc = wrapping_add(s.cpu.sp, OffsetAsU16(i.val))]
      [] i.op = "Call" -> Cpu_Call(s, i.val)
      [] i.op = "JumpIndirect" -> Cpu_JumpIndirect(s, i.val, i.reg, inb)
      [] i.op = "JumpIf" -> Cpu_JumpIf(s, i.n, i.val)
      [] i.op = "PushPC" -> Cpu_PushPC(s)
      [] i.op = "PopPC" -> Cpu_PopPC(s, inb)
      [] i.op = "PushFlags" -> Cpu_PushFlags(s)
      [] i.op = "PopFlags" -> Cpu_PopFlags(s, inb)
      [] i.op = "PushRegister" -> Cpu_PushRegister(s, i.reg)
      [] i.op = "PopRegister" -> Cpu_PopRegister(s, i.reg, inb)
      [] i.op = "ClearInterruptRequest" -> 
            \* 1 << irq on the u16 request word overflows for irq >= 16
            IF i.n >= 16 /\ overflow_checks
            THEN Panic(s)
            ELSE [s EXCEPT !.cpu.ir_flags = BitAndN(@, BitNot16(Pow2(i.n % 16)), 16)]
      [] i.op = "SetInterruptRequest" -> 
            IF i.n >= 16 /\ overflow_checks
            THEN Panic(s)
            ELSE [s EXCEPT !.cpu.ir_flags = BitOrN(@, Pow2(i.n % 16), 16)]
      [] i.op = "WaitForInterrupt" -> Cpu_WaitForInterrupt(s)
      [] i.op = "ReturnFromInterrupt" -> handle_return_from_interrupt(s, inb)
      [] i.op = "ClearFlags" -> [s EXCEPT !.cpu.flags = BitAndN(@, BitNot8(i.n), 8)]
      [] i.op = "SetFlags" -> [s EXCEPT !.cpu.flags = BitOrN(@, i.n, 8)]

\* Length of the encoded instruction: the opcode byte plus its operand bytes
\* (a 16-bit operand, an 8-bit offset or mask, or none).
byte_length(i) ==
    IF i.op \in {"LoadImmediate", "LoadAddressAbsolute", "LoadAddressIndirect",
                 "LoadWordAbsolute", "LoadWordIndirect", "StoreAddressAbsolute",
                 "StoreAddressIndirect", "StoreWordAbsolute", "StoreWordIndirect",
                 "CompareImmediate", "TestImmediate", "JumpAbsolute", "Call",
                 "JumpIndirect", "JumpIf"}
    THEN 3
    ELSE IF i.op \in {"LoadAddressStackOffset", "LoadWordStackOffset",
                      "StoreAddressStackOffset", "StoreWordStackOffset",
                      "JumpNear", "JumpStackOffset", "MoveRegister",
                      "ClearFlags", "SetFlags"}
    THEN 2
    ELSE 1

(***************************************************************************)
(* Isa draft: the instruction codec of src/src/isa.rs.                     *)
(***************************************************************************)
\* `reg as u8` (src/src/register.rs) and the decoder's `opcode & 3`
RegNum == [a |-> 0, b |-> 1, c |-> 2, d |-> 3]
RegOf(n) == CHOOSE r \in Registers : RegNum[r] = n

\* impl From<Instruction> for Vec<u8>
Isa_encode(i) ==
    LET lo == i.val % 256
        hi == (i.val \div 256) % 256
        R(base) == <<BitOrN(base, RegNum[i.reg], 8)>>
        RW(base) == <<BitOrN(base, RegNum[i.reg], 8), lo, hi>>
        W(opcode) == <<opcode, lo, hi>>
        N(base) == <<BitOrN(base, i.n, 8)>>
        NW(base) == <<BitOrN(base, i.n, 8), lo, hi>>
    IN  CASE i.op = "LoadFrom" -> R(0)
          [] i.op = "StoreTo" -> R(4)
          [] i.op = "Zero" -> R(8)
          [] i.op = "LoadImmediate" -> RW(12)
          [] i.op = "LoadAddress" -> W(16)
          [] i.op = "LoadIndirect" -> <<17>>
          [] i.op = "LoadOffset" -> W(18)
          [] i.op = "LoadStackOffset" -> W(19)
          [] i.op = "LoadByteAddress" -> W(20)
          [] i.op = "LoadByteIndirect" -> <<21>>
          [] i.op = "LoadByteOffset" -> W(22)
          [] i.op = "LoadByteStackOffset" -> W(23)
          [] i.op = "StoreAddress" -> W(24)
          [] i.op = "StoreIndirect" -> <<25>>
          [] i.op = "StoreOffset" -> W(26)
          [] i.op = "StoreStackOffset" -> W(27)
          [] i.op = "StoreByteAddress" -> W(28)
          [] i.op = "StoreByteIndirect" -> <<29>>
          [] i.op = "StoreByteOffset" -> W(30)
          [] i.op = "StoreByteStackOffset" -> W(31)
          [] i.op = "Not" -> R(32)
          [] i.op = "Increment" -> R(40)
          [] i.op = "Decrement" -> R(44)
          [] i.op = "And" -> R(48)
          [] i.op = "Or" -> R(52)
          [] i.op = "Xor" -> R(56)
          [] i.op = "LeftShift" -> R(60)
          [] i.op = "RightShift" -> R(64)
          [] i.op = "Add" -> R(68)
          [] i.op = "Subtract" -> R(72)
          [] i.op = "AddWithCarry" -> R(76)
          [] i.op = "SubtractWithBorrow" -> R(80)
          [] i.op = "CompareA" -> R(84)
          [] i.op = "CompareImmediate" -> RW(88)
          [] i.op = "Jump" -> W(96)
          [] i.op = "JumpOffset" -> W(97)
          [] i.op = "JumpRelative" -> W(98)
          [] i.op = "Loop" -> W(100)
          [] i.op = "LoopOffset" -> W(101)
          [] i.op = "LoopRelative" -> W(102)
          [] i.op = "Call" -> W(104)
          [] i.op = "CallOffset" -> W(105)
          [] i.op = "CallRelative" -> W(106)
          [] i.op = "JumpIf" -> NW(112)
          [] i.op = "JumpOffsetIf" -> NW(128)
          [] i.op = "JumpRelativeIf" -> NW(144)
          [] i.op = "Push" -> <<160>>
          [] i.op = "PushPC" -> <<161>>
          [] i.op = "PushFlags" -> <<162>>
          [] i.op = "Pop" -> <<168>>
          [] i.op = "Return" -> <<169>>
          [] i.op = "PopFlags" -> <<170>>
          [] i.op = "Input" -> <<176>>
          [] i.op = "Output" -> <<177>>
          [] i.op = "SetInterrupt" -> W(208)
          [] i.op = "Clear" -> N(224)
          [] i.op = "Set" -> N(240)

\* Result<(Instruction, u32), InstructionError>
DecodeOk(i, count) == [ok |-> TRUE, ins |-> i, count |-> count, err |-> "-"]
DecodeErr(err, opcode) ==
    [ok |-> FALSE, ins |-> NoIns, count |-> opcode, err |-> err]

\* Instruction::from_iter on the byte sequence bs
Isa_from_iter(bs) ==
    IF Len(bs) = 0 THEN DecodeErr("EndOfInput", 0)
    ELSE
    LET opcode == bs[1]
        gpr == RegOf(opcode % 4)
        word == bs[2] + 256 * bs[3]
        cond == opcode % 16
        R(op) == DecodeOk(Ins(op, gpr, "-", 0, 0), 1)
        P(op) == DecodeOk(Ins(op, "-", "-", 0, 0), 1)
        N(op) == DecodeOk(Ins(op, "-", "-", 0, cond), 1)
        RW(op) == IF Len(bs) < 3 THEN DecodeErr("EndOfInput", 0)
                  ELSE DecodeOk(Ins(op, gpr, "-", word, 0), 3)
        W(op) == IF Len(bs) < 3 THEN DecodeErr("EndOfInput", 0)
                 ELSE DecodeOk(Ins(op, "-", "-", word, 0), 3)
        NW(op) == IF Len(bs) < 3 THEN DecodeErr("EndOfInput", 0)
                  ELSE DecodeOk(Ins(op, "-", "-", word, cond), 3)
    IN  CASE opcode \in 0 .. 3 -> R("LoadFrom")
          [] opcode \in 4 .. 7 -> R("StoreTo")
          [] opcode \in 8 .. 11 -> R("Zero")
          [] opcode \in 12 .. 15 -> RW("LoadImmediate")
          [] opcode = 16 -> W("LoadAddress")
          [] opcode = 17 -> P("LoadIndirect")
          [] opcode = 18 -> W("LoadOffset")
          [] opcode = 19 -> W("LoadStackOffset")
          [] opcode = 20 -> W("LoadByteAddress")
          [] opcode = 21 -> P("LoadByteIndirect")
          [] opcode = 22 -> W("LoadByteOffset")
          [] opcode = 23 -> W("LoadByteStackOffset")
          [] opcode = 24 -> W("StoreAddress")
          [] opcode = 25 -> P("StoreIndirect")
          [] opcode = 26 -> W("StoreOffset")
          [] opcode = 27 -> W("StoreStackOffset")
          [] opcode = 28 -> W("StoreByteAddress")
          [] opcode = 29 -> P("StoreByteIndirect")
          [] opcode = 30 -> W("StoreByteOffset")
          [] opcode = 31 -> W("StoreByteStackOffset")
          [] opcode \in 32 .. 35 -> R("Not")
          [] opcode \in 40 .. 43 -> R("Increment")
          [] opcode \in 44 .. 47 -> R("Decrement")
          [] opcode \in 48 .. 51 -> R("And")
          [] opcode \in 52 .. 55 -> R("Or")
          [] opcode \in 56 .. 59 -> R("Xor")
          [] opcode \in 60 .. 63 -> R("LeftShift")
          [] opcode \in 64 .. 67 -> R("RightShift")
          [] opcode \in 68 .. 71 -> R("Add")
          [] opcode \in 72 .. 75 -> R("Subtract")
          [] opcode \in 76 .. 79 -> R("AddWithCarry")
          [] opcode \in 80 .. 83 -> R("SubtractWithBorrow")
          [] opcode \in 84 .. 87 -> R("CompareA")
          [] opcode \in 88 .. 91 -> RW("CompareImmediate")
          [] opcode = 96 -> W("Jump")
          [] opcode = 97 -> W("JumpOffset")
          [] opcode = 98 -> W("JumpRelative")
          [] opcode = 100 -> W("Loop")
          [] opcode = 101 -> W("LoopOffset")
          [] opcode = 102 -> W("LoopRelative")
          [] opcode = 104 -> W("Call")
          [] opcode = 105 -> W("CallOffset")
          [] opcode = 106 -> W("CallRelative")
          [] opcode \in 112 .. 127 -> NW("JumpIf")
          [] opcode \in 128 .. 143 -> NW("JumpOffsetIf")
          [] opcode \in 144 .. 159 -> NW("JumpRelativeIf")
          [] opcode = 160 -> P("Push")
          [] opcode = 161 -> P("PushPC")
          [] opcode = 162 -> P("PushFlags")
          [] opcode = 168 -> P("Pop")
          [] opcode = 169 -> P("Return")
          [] opcode = 170 -> P("PopFlags")
          [] opcode = 176 -> P("Input")
          [] opcode = 177 -> P("Output")
          [] opcode = 208 -> W("SetInterrupt")
          [] opcode \in 224 .. 239 -> N("Clear")
          [] opcode \in 240 .. 255 -> N("Set")
          [] OTHER -> DecodeErr("InvalidOpcode", opcode)

(***************************************************************************)
(* The Memory trait on byte arrays and slices: src/src/memory.rs.  A byte  *)
(* container is its non-zero bytes m and its length len.                   *)
(***************************************************************************)
MemOk(m, val) == [ok |-> TRUE, mem |-> m, val |-> val]
MemPanic(m) == [ok |-> FALSE, mem |-> m, val |-> 0]

\* read_byte: self[address], an index panic at or beyond len (both impls)
Mem_read_byte(m, len, address) ==
    IF address < len THEN MemOk(m, Peek(m, address)) ELSE MemPanic(m)

\* read_word: u16::from_le_bytes of the bytes at address and address + 1
\* (both impls)
Mem_read_word(m, len, address) ==
    LET lo == Mem_read_byte(m, len, address)
        hi == Mem_read_byte(m, len, address + 1)
    IN  IF lo.ok /\ hi.ok THEN MemOk(m, lo.val + 256 * hi.val) ELSE MemPanic(m)

\* write_byte: self[address] = value (both impls)
Mem_write_byte(m, len, address, value) ==
    IF address < len THEN MemOk(Poke(m, address, value), 0) ELSE MemPanic(m)

\* <[u8] as Memory>::write_word
Slice_write_word(m, len, address, value) ==
    LET lo == Mem_write_byte(m, len, address, value % 256)
    IN  IF lo.ok
        THEN Mem_write_byte(lo.mem, len, address + 1, (value \div 256) % 256)
        ELSE lo

\* <[u8; N] as Memory>::write_word
Array_write_word(m, len, address, value) ==
    Mem_write_byte(m, len, address, value % 256)

\* Memory::read_array::<3>
Mem_read_array3(m, len, address) ==
    LET b0 == Mem_read_byte(m, len, address)
        b1 == Mem_read_byte(m, len, address + 1)
        b2 == Mem_read_byte(m, len, address + 2)
    IN  IF b0.ok /\ b1.ok /\ b2.ok
        THEN MemOk(m, <<b0.val, b1.val, b2.val>>)
        ELSE MemPanic(m)

\* Memory::write_array
RECURSIVE Mem_write_array(_, _, _, _)
Mem_write_array(m, len, address, bs) ==
    IF bs = <<>> THEN MemOk(m, 0)
    ELSE LET w == Mem_write_byte(m, len, address, Head(bs))
         IN  IF w.ok THEN Mem_write_array(w.mem, len, address + 1, Tail(bs))
             ELSE w

(***************************************************************************)
(* Emu draft: src/src/emulator.rs with Emulator::execute of src/src/isa.rs.*)
(* An emulator e is the struct's fields, the characters printed (out) and  *)
(* whether the process has panicked (crashed).                             *)
(***************************************************************************)
MEM_SIZE == 65536

\* Emulator::new on a zeroed memory
NewEmulator ==
    [a |-> 0, b |-> 0, c |-> 0, d |-> 0, pc |-> 0, sp |-> 61440, flags |-> 0,
     memory |-> EmptyMem, out |-> <<>>, crashed |-> FALSE]

Emu_panic(e) == [e EXCEPT !.crashed = TRUE]

\* flags & (1 << flag) != 0 on the 16-bit flag word
Emu_flag(e, flag) == Bit(e.flags, flag) = 1

\* Emulator::set_operation_flags
set_operation_flags(e, value) ==
    LET cleared == BitAndN(e.flags,
                           BitNot16(Pow2(ZERO) + Pow2(SIGN) + Pow2(CARRY) + Pow2(OVERFLOW)),
                           16)
        z == IF value = 0 THEN BitOrN(cleared, Pow2(ZERO), 16) ELSE cleared
        zs == IF BitAndN(value, 32768, 16) # 0 THEN BitOrN(z, Pow2(SIGN), 16) ELSE z
    IN  [e EXCEPT !.flags = zs]

\* self.flags |= (overflow as u16) << OVERFLOW | (carry as u16) << CARRY
Emu_or_flags(e, overflow, carry) ==
    [e EXCEPT !.flags =
        BitOrN(@, (IF overflow THEN Pow2(OVERFLOW) ELSE 0)
                  + (IF carry THEN Pow2(CARRY) ELSE 0), 16)]

\* Emulator::check_condition; cond is the low four bits of the opcode
check_condition(e, cond) ==
    LET z == Emu_flag(e, ZERO)
        s == Emu_flag(e, SIGN)
        c == Emu_flag(e, CARRY)
        o == Emu_flag(e, OVERFLOW)
    IN  CASE cond = 0 -> z
          [] cond = 1 -> s
          [] cond = 2 -> c
          [] cond = 3 -> o
          [] cond = 4 -> c
          [] cond = 5 -> c \/ z
          [] cond = 6 -> s # o
          [] cond = 7 -> z \/ (s # o)
          [] cond = 8 -> ~z
          [] cond = 9 -> ~s
          [] cond = 10 -> ~c
          [] cond = 11 -> ~o
          [] cond = 12 -> ~c
          [] cond = 13 -> ~c /\ ~z
          [] cond = 14 -> s = o
          [] cond = 15 -> ~z /\ (s = o)

\* Emulator::execute (src/src/isa.rs); inb is the byte standard input
\* yields, -1 when the read fails
Isa_execute(e, i, inb) ==
    LET r == IF i.reg \in Registers THEN e[i.reg] ELSE 0
        add1(x) == wrapping_add(x, 1)
        load(addr) == Peek(e.memory, addr) + 256 * Peek(e.memory, add1(addr))
        store(m, addr, v) ==
            Poke(Poke(m, addr, v % 256), add1(addr), (v \div 256) % 256)
        push(v) ==
            LET sp == wrapping_sub(e.sp, 2)
            IN  [e EXCEPT !.sp = sp, !.memory = store(@, sp, v)]
        jump_if(target) ==
            IF i.n > 15 THEN Emu_panic(e)
            ELSE IF check_condition(e, i.n) THEN [e EXCEPT !.pc = target] ELSE e
        loop(target) ==
            LET c == wrapping_sub(e.c, 1)
            IN  IF c # 0 THEN [e EXCEPT !.c = c, !.pc = target]
                ELSE [e EXCEPT !.c = c]
        arith(dst, res, carry, overflow) ==
            Emu_or_flags(set_operation_flags([e EXCEPT ![dst] = res], res),
                         overflow, carry)
        cin == Emu_flag(e, CARRY)
    IN  CASE i.op = "LoadFrom" -> [e EXCEPT !.a = r]
          [] i.op = "StoreTo" -> [e EXCEPT ![i.reg] = e.a]
          [] i.op = "Zero" -> [e EXCEPT ![i.reg] = 0]
          [] i.op = "LoadImmediate" -> [e EXCEPT ![i.reg] = i.val]
          [] i.op = "LoadAddress" -> [e EXCEPT !.a = load(i.val)]
          [] i.op = "LoadIndirect" -> [e EXCEPT !.a = load(e.b)]
          [] i.op = "LoadOffset" -> [e EXCEPT !.a = load(wrapping_add(e.b, i.val))]
          [] i.op = "LoadStackOffset" ->
                [e EXCEPT !.a = load(wrapping_add(e.sp, i.val))]
          [] i.op = "LoadByteAddress" -> [e EXCEPT !.a = Peek(e.memory, i.val)]
          [] i.op = "LoadByteIndirect" -> [e EXCEPT !.a = Peek(e.memory, e.b)]
          [] i.op = "LoadByteOffset" ->
                [e EXCEPT !.a = Peek(e.memory, wrapping_add(e.b, i.val))]
          [] i.op = "LoadByteStackOffset" ->
                [e EXCEPT !.a = Peek(e.memory, wrapping_add(e.sp, i.val))]
          [] i.op = "StoreAddress" -> [e EXCEPT !.memory = store(@, i.val, e.a)]
          [] i.op = "StoreIndirect" -> [e EXCEPT !.memory = store(@, e.b, e.a)]
          [] i.op = "StoreOffset" ->
                [e EXCEPT !.memory = store(@, wrapping_add(e.b, i.val), e.a)]
          [] i.op = "StoreStackOffset" ->
                [e EXCEPT !.memory = store(@, wrapping_add(e.sp, i.val), e.a)]
          [] i.op = "StoreByteAddress" ->
                [e EXCEPT !.memory = Poke(@, i.val, e.a % 256)]
          [] i.op = "StoreByteIndirect" ->
                [e EXCEPT !.memory = Poke(@, e.b, e.a % 256)]
          [] i.op = "StoreByteOffset" ->
                [e EXCEPT !.memory = Poke(@, wrapping_add(e.b, i.val), e.a % 256)]
          [] i.op = "StoreByteStackOffset" ->
                [e EXCEPT !.memory = Poke(@, wrapping_add(e.sp, i.val), e.a % 256)]
          [] i.op = "Not" ->
                set_operation_flags([e EXCEPT ![i.reg] = BitNot16(r)], BitNot16(r))
          [] i.op = "Increment" ->
                arith(i.reg, overflowing_add(r, 1)[1], overflowing_add(r, 1)[2],
                      overflowing_add_i16(r, 1))
          [] i.op = "Decrement" ->
                arith(i.reg, overflowing_sub(r, 1)[1], overflowing_sub(r, 1)[2],
                      overflowing_sub_i16(r, 1))
          [] i.op = "And" ->
                set_operation_flags([e EXCEPT !.a = BitAndN(e.a, r, 16)],
                                    BitAndN(e.a, r, 16))
          [] i.op = "Or" ->
                set_operation_flags([e EXCEPT !.a = BitOrN(e.a, r, 16)],
                                    BitOrN(e.a, r, 16))
          [] i.op = "Xor" ->
                set_operation_flags([e EXCEPT !.a = BitXorN(e.a, r, 16)],
                                    BitXorN(e.a, r, 16))
          [] i.op = "LeftShift" ->
                arith("a", overflowing_shl(e.a, r)[1], overflowing_shl(e.a, r)[2], FALSE)
          [] i.op = "RightShift" ->
                arith("a", overflowing_shr(e.a, r)[1], overflowing_shr(e.a, r)[2], FALSE)
          [] i.op = "Add" ->
                arith("a", overflowing_add(e.a, r)[1], overflowing_add(e.a, r)[2],
                      overflowing_add_i16(e.a, r))
          [] i.op = "Subtract" ->
                arith("a", overflowing_sub(e.a, r)[1], overflowing_sub(e.a, r)[2],
                      overflowing_sub_i16(e.a, r))
          [] i.op = "AddWithCarry" ->
                arith("a", carrying_add(e.a, r, cin)[1], carrying_add(e.a, r, cin)[2],
                      carrying_add_i16(e.a, r, cin))
          [] i.op = "SubtractWithBorrow" ->
                arith("a", borrowing_sub(e.a, r, cin)[1], borrowing_sub(e.a, r, cin)[2],
                      borrowing_sub_i16(e.a, r, cin))
          [] i.op = "CompareA" ->
                Emu_or_flags(set_operation_flags(e, overflowing_sub(e.a, r)[1]),
                             overflowing_sub_i16(e.a, r), overflowing_sub(e.a, r)[2])
          [] i.op = "CompareImmediate" ->
                Emu_or_flags(set_operation_flags(e, overflowing_sub(r, i.val)[1]),
                             overflowing_sub_i16(r, i.val), overflowing_sub(r, i.val)[2])
          [] i.op = "Jump" -> [e EXCEPT !.pc = i.val]
          [] i.op = "JumpOffset" -> [e EXCEPT !.pc = wrapping_add(e.b, i.val)]
          [] i.op = "JumpRelative" -> [e EXCEPT !.pc = wrapping_add(e.pc, i.val)]
          [] i.op = "JumpIf" -> jump_if(i.val)
          [] i.op = "JumpOffsetIf" -> jump_if(wrapping_add(e.b, i.val))
          [] i.op = "JumpRelativeIf" -> jump_if(wrapping_add(e.pc, i.val))
          [] i.op = "Loop" -> loop(i.val)
          [] i.op = "LoopOffset" -> loop(wrapping_add(e.b, i.val))
          [] i.op = "LoopRelative" -> loop(wrapping_add(e.pc, i.val))
          [] i.op = "Call" -> [push(e.pc) EXCEPT !.pc = i.val]
          [] i.op = "CallOffset" -> [push(e.pc) EXCEPT !.pc = wrapping_add(e.b, i.val)]
          [] i.op = "CallRelative" ->
                [push(e.pc) EXCEPT !.pc = wrapping_add(e.pc, i.val)]
          [] i.op = "Push" -> push(e.a)
          [] i.op = "PushPC" -> push(e.pc)
          [] i.op = "PushFlags" -> push(e.flags)
          [] i.op = "Pop" -> [e EXCEPT !.a = load(e.sp), !.sp = wrapping_add(@, 2)]
          [] i.op = "Return" -> [e EXCEPT !.pc = load(e.sp), !.sp = wrapping_add(@, 2)]
          [] i.op = "PopFlags" ->
                [e EXCEPT !.flags = load(e.sp), !.sp = wrapping_add(@, 2)]
          [] i.op = "Input" -> [e EXCEPT !.a = IF inb < 0 THEN 65535 ELSE inb]
          [] i.op = "Output" -> [e EXCEPT !.out = Append(@, e.a % 256)]
          [] i.op = "SetInterrupt" -> [e EXCEPT !.memory = store(@, 65534, i.val)]
          [] i.op = "Clear" ->
                IF i.n > 15 /\ overflow_checks THEN Emu_panic(e)
                ELSE [e EXCEPT !.flags = BitAndN(@, BitNot16(Pow2(i.n % 16)), 16)]
          [] i.op = "Set" ->
                IF i.n > 15 /\ overflow_checks THEN Emu_panic(e)
                ELSE [e EXCEPT !.flags = BitOrN(@, Pow2(i.n % 16), 16)]

\* Emulator::handle_interrupt: the six registers go through
\* Memory::write_word of the byte array
Emu_handle_interrupt(e) ==
    LET regs == <<e.pc, e.flags, e.a, e.b, e.c, e.d>>
        sp(k) == wrapping_sub(e.sp, 2 * k)
        m0 == e.memory
        m1 == Array_write_word(m0, MEM_SIZE, sp(1), regs[1]).mem
        m2 == Array_write_word(m1, MEM_SIZE, sp(2), regs[2]).mem
        m3 == Array_write_word(m2, MEM_SIZE, sp(3), regs[3]).mem
        m4 == Array_write_word(m3, MEM_SIZE, sp(4), regs[4]).mem
        m5 == Array_write_word(m4, MEM_SIZE, sp(5), regs[5]).mem
        m6 == Array_write_word(m5, MEM_SIZE, sp(6), regs[6]).mem
        vector == Mem_read_word(m6, MEM_SIZE, 65534).val
    IN  [e EXCEPT !.sp = sp(6), !.memory = m6, !.pc = vector,
                  !.flags = BitAndN(BitOrN(@, Pow2(INTERRUPT), 16),
                                    BitNot16(Pow2(HALT)), 16)]

\* Emulator::next_instruction
Emu_next_instruction(e) ==
    LET window == Mem_read_array3(e.memory, MEM_SIZE, e.pc)
    IN  IF window.ok THEN Isa_from_iter(window.val)
        ELSE DecodeErr("panic", 0)

\* Emulator::advance
Emu_advance(e, inb) ==
    LET d == Emu_next_instruction(e)
        e1 == [e EXCEPT !.pc = wrapping_add(@, d.count)]
        e2 == Isa_execute(e1, d.ins, inb)
    IN  IF ~d.ok THEN Emu_panic(e)
        ELSE IF e2.crashed THEN e2
        ELSE IF Emu_flag(e2, INTERRUPT) THEN Emu_handle_interrupt(e2)
        ELSE e2

(***************************************************************************)
(* Main draft: src/src/main.rs, a self-contained codec and emulator on a   *)
(* flat byte array.  Its registers are private: a run starts from          *)
(* Emulator::new on a memory image.                                        *)
(***************************************************************************)
\* impl From<Instruction> for Vec<u8> (src/src/main.rs)
Main_encode(i) ==
    LET lo == i.val % 256
        hi == (i.val \div 256) % 256
        R(base) == <<BitOrN(base, RegNum[i.reg], 8)>>
        RW(base) == <<BitOrN(base, RegNum[i.reg], 8), lo, hi>>
        W(opcode) == <<opcode, lo, hi>>
        N(base) == <<BitOrN(base, i.n, 8)>>
        NW(base) == <<BitOrN(base, i.n, 8), lo, hi>>
    IN  CASE i.op = "LoadFrom" -> R(0)
          [] i.op = "StoreTo" -> R(4)
          [] i.op = "Zero" -> R(8)
          [] i.op = "LoadImmediate" -> RW(12)
          [] i.op = "LoadAddress" -> W(16)
          [] i.op = "LoadIndirect" -> <<17>>
          [] i.op = "LoadRelative" -> W(18)
          [] i.op = "LoadStackRelative" -> W(19)
          [] i.op = "StoreAddress" -> W(24)
          [] i.op = "StoreIndirect" -> <<25>>
          [] i.op = "StoreRelative" -> W(26)
          [] i.op = "StoreStackRelative" -> W(27)
          [] i.op = "StoreByteAddress" -> W(28)
          [] i.op = "StoreByteIndirect" -> <<29>>
          [] i.op = "StoreByteRelative" -> W(30)
          [] i.op = "StoreByteStackRelative" -> W(31)
          [] i.op = "Not" -> <<32>>
          [] i.op = "Increment" -> <<33>>
          [] i.op = "Decrement" -> <<34>>
          [] i.op = "And" -> R(36)
          [] i.op = "Or" -> R(40)
          [] i.op = "Xor" -> R(44)
          [] i.op = "LeftShift" -> R(48)
          [] i.op = "RightShift" -> R(52)
          [] i.op = "Add" -> R(56)
          [] i.op = "Subtract" -> R(60)
          [] i.op = "AddWithCarry" -> R(64)
          [] i.op = "SubtractWithBorrow" -> R(68)
          [] i.op = "Compare" -> R(72)
          [] i.op = "CompareImmediate" -> W(76)
          [] i.op = "IncrementC" -> <<81>>
          [] i.op = "DecrementC" -> <<82>>
          [] i.op = "CompareC" -> R(84)
          [] i.op = "CompareCImmediate" -> W(88)
          [] i.op = "Jump" -> W(96)
          [] i.op = "Loop" -> W(104)
          [] i.op = "JumpRelative" -> W(112)
          [] i.op = "LoopRelative" -> W(120)
          [] i.op = "JumpIf" -> NW(128)
          [] i.op = "JumpRelativeIf" -> NW(144)
          [] i.op = "Push" -> <<160>>
          [] i.op = "PushPC" -> <<161>>
          [] i.op = "PushFlags" -> <<162>>
          [] i.op = "Pop" -> <<168>>
          [] i.op = "PopPC" -> <<169>>
          [] i.op = "PopFlags" -> <<170>>
          [] i.op = "Input" -> <<176>>
          [] i.op = "Output" -> <<177>>
          [] i.op = "SetInterrupt" -> W(208)
          [] i.op = "Clear" -> N(224)
          [] i.op = "Set" -> N(240)

\* Instruction::from_iter (src/src/main.rs); an opcode outside the table
\* reaches unimplemented!()
Main_from_iter(bs) ==
    IF Len(bs) = 0 THEN DecodeErr("EndOfInput", 0)
    ELSE
    LET opcode == bs[1]
        gpr == RegOf(opcode % 4)
        word == bs[2] + 256 * bs[3]
        cond == opcode % 16
        R(op) == DecodeOk(Ins(op, gpr, "-", 0, 0), 1)
        P(op) == DecodeOk(Ins(op, "-", "-", 0, 0), 1)
        N(op) == DecodeOk(Ins(op, "-", "-", 0, cond), 1)
        RW(op) == IF Len(bs) < 3 THEN DecodeErr("EndOfInput", 0)
                  ELSE DecodeOk(Ins(op, gpr, "-", word, 0), 3)
        W(op) == IF Len(bs) < 3 THEN DecodeErr("EndOfInput", 0)
                 ELSE DecodeOk(Ins(op, "-", "-", word, 0), 3)
        NW(op) == IF Len(bs) < 3 THEN DecodeErr("EndOfInput", 0)
                  ELSE DecodeOk(Ins(op, "-", "-", word, cond), 3)
    IN  CASE opcode \in 0 .. 3 -> R("LoadFrom")
          [] opcode \in 4 .. 7 -> R("StoreTo")
          [] opcode \in 8 .. 11 -> R("Zero")
          [] opcode \in 12 .. 15 -> RW("LoadImmediate")
          [] opcode = 16 -> W("LoadAddress")
          [] opcode = 17 -> P("LoadIndirect")
          [] opcode = 18 -> W("LoadRelative")
          [] opcode = 19 -> W("LoadStackRelative")
          [] opcode = 24 -> W("StoreAddress")
          [] opcode = 25 -> P("StoreIndirect")
          [] opcode = 26 -> W("StoreRelative")
          [] opcode = 27 -> W("StoreStackRelative")
          [] opcode = 28 -> W("StoreByteAddress")
          [] opcode = 29 -> P("StoreByteIndirect")
          [] opcode = 30 -> W("StoreByteRelative")
          [] opcode = 31 -> W("StoreByteStackRelative")
          [] opcode = 32 -> P("Not")
          [] opcode = 33 -> P("Increment")
          [] opcode = 34 -> P("Decrement")
          [] opcode \in 36 .. 39 -> R("And")
          [] opcode \in 40 .. 43 -> R("Or")
          [] opcode \in 44 .. 47 -> R("Xor")
          [] opcode \in 48 .. 51 -> R("LeftShift")
          [] opcode \in 52 .. 55 -> R("RightShift")
          [] opcode \in 56 .. 59 -> R("Add")
          [] opcode \in 60 .. 63 -> R("Subtract")
          [] opcode \in 64 .. 67 -> R("AddWithCarry")
          [] opcode \in 68 .. 71 -> R("SubtractWithBorrow")
          [] opcode \in 72 .. 75 -> R("Compare")
          [] opcode = 76 -> W("CompareImmediate")
          [] opcode = 81 -> P("IncrementC")
          [] opcode = 82 -> P("DecrementC")
          [] opcode \in 84 .. 87 -> R("CompareC")
          [] opcode = 88 -> W("CompareCImmediate")
          [] opcode = 96 -> W("Jump")
          [] opcode = 104 -> W("Loop")
          [] opcode = 112 -> W("JumpRelative")
          [] opcode = 120 -> W("LoopRelative")
          [] opcode \in 128 .. 143 -> NW("JumpIf")
          [] opcode \in 144 .. 159 -> NW("JumpRelativeIf")
          [] opcode = 160 -> P("Push")
          [] opcode = 161 -> P("PushPC")
          [] opcode = 162 -> P("PushFlags")
          [] opcode = 168 -> P("Pop")
          [] opcode = 169 -> P("PopPC")
          [] opcode = 170 -> P("PopFlags")
          [] opcode = 176 -> P("Input")
          [] opcode = 177 -> P("Output")
          [] opcode = 208 -> W("SetInterrupt")
          [] opcode \in 224 .. 239 -> N("Clear")
          [] opcode \in 240 .. 255 -> N("Set")
          [] OTHER -> DecodeErr("unimplemented", opcode)

\* Emulator::new(image) (src/src/main.rs): the image padded with zeros
Main_new(image) ==
    [a |-> 0, b |-> 0, c |-> 0, d |-> 0, pc |-> 0, sp |-> 0, flags |-> 0,
     memory |-> Mem_write_array(EmptyMem, MEM_SIZE, 0, image).mem,
     out |-> <<>>, crashed |-> FALSE]

\* Emulator::set_operation_flags (src/src/main.rs)
Main_set_operation_flags(e, value) ==
    LET cleared == BitAndN(e.flags,
                           BitNot16(Pow2(ZERO) + Pow2(SIGN) + Pow2(CARRY) + Pow2(OVERFLOW)),
                           16)
        z == IF value = 0 THEN BitOrN(cleared, Pow2(ZERO), 16) ELSE cleared
        zs == IF BitAndN(value, 32768, 16) # 0 THEN BitOrN(z, Pow2(SIGN), 16) ELSE z
    IN  [e EXCEPT !.flags = zs]

\* Emulator::check_condition (src/src/main.rs): `&` binds tighter than `!=`,
\* so the signed conditions compare the masked words, not the bits; codes 4
\* and 12 and every code above 15 reach unimplemented!()
Main_check_condition(e, cond) ==
    LET z == Emu_flag(e, ZERO)
        c == Emu_flag(e, CARRY)
        o == Emu_flag(e, OVERFLOW)
        sm == BitAndN(e.flags, Pow2(SIGN), 16)
        om == BitAndN(e.flags, Pow2(OVERFLOW), 16)
        yes(b) == [ok |-> TRUE, val |-> b]
    IN  CASE cond = 0 -> yes(z)
          [] cond = 1 -> yes(sm # 0)
          [] cond = 2 -> yes(c)
          [] cond = 3 -> yes(o)
          [] cond = 5 -> yes(c \/ z)
          [] cond = 6 -> yes(z \/ sm # om)
          [] cond = 7 -> yes(sm # om)
          [] cond = 8 -> yes(~z)
          [] cond = 9 -> yes(sm = 0)
          [] cond = 10 -> yes(~c)
          [] cond = 11 -> yes(~o)
          [] cond = 13 -> yes(~c /\ ~z)
          [] cond = 14 -> yes(~z /\ sm = om)
          [] cond = 15 -> yes(sm = om)
          [] OTHER -> [ok |-> FALSE, val |-> FALSE]

\* Emulator::execute (src/src/main.rs).  `x as usize + 1` indexes past the
\* array at 0xFFFF; `self.b + offset`, the shift counts and `1 << flag`
\* trap in a build with overflow checks and wrap otherwise.
Main_execute(e, i) ==
    LET r == IF i.reg \in Registers THEN e[i.reg] ELSE 0
        lo(v) == v % 256
        hi(v) == (v \div 256) % 256
        traps(x, y) == x + y >= W16 /\ overflow_checks
        loadAt(addr) ==
            IF addr + 1 >= MEM_SIZE THEN Emu_panic(e)
            ELSE [e EXCEPT !.a = Peek(e.memory, addr) + 256 * Peek(e.memory, addr + 1)]
        loadRel(base) ==
            IF traps(base, i.val) THEN Emu_panic(e)
            ELSE loadAt((base + i.val) % W16)
        storeAt(addr) ==
            IF addr + 1 >= MEM_SIZE
            THEN Emu_panic([e EXCEPT !.memory = Poke(@, addr, lo(e.a))])
            ELSE [e EXCEPT !.memory = Poke(Poke(@, addr, lo(e.a)), addr + 1, hi(e.a))]
        storeRel(base) ==
            IF traps(base, i.val) THEN Emu_panic(e)
            ELSE storeAt((base + i.val) % W16)
        storeByteAt(addr) == [e EXCEPT !.memory = Poke(@, addr, lo(e.a))]
        storeByteRel(base) ==
            IF traps(base, i.val) THEN Emu_panic(e)
            ELSE storeByteAt((base + i.val) % W16)
        push(v) ==
            LET sp == wrapping_sub(e.sp, 2)
            IN  IF sp + 1 >= MEM_SIZE
                THEN Emu_panic([e EXCEPT !.sp = sp, !.memory = Poke(@, sp, lo(v))])
                ELSE [e EXCEPT !.sp = sp,
                               !.memory = Poke(Poke(@, sp, lo(v)), sp + 1, hi(v))]
        pop(field) ==
            IF e.sp + 1 >= MEM_SIZE THEN Emu_panic(e)
            ELSE [e EXCEPT ![field] = Peek(e.memory, e.sp) + 256 * Peek(e.memory, e.sp + 1),
                           !.sp = wrapping_add(e.sp, 2)]
        orFlags(x, overflow, carry) ==
            [x EXCEPT !.flags =
                BitOrN(@, (IF overflow THEN Pow2(OVERFLOW) ELSE 0)
                          + (IF carry THEN Pow2(CARRY) ELSE 0), 16)]
        arith(dst, res, carry, overflow) ==
            orFlags(Main_set_operation_flags([e EXCEPT ![dst] = res], res),
                    overflow, carry)
        compare(x, y) ==
            orFlags(Main_set_operation_flags(e, overflowing_sub(x, y)[1]),
                    overflowing_sub_i16(x, y), overflowing_sub(x, y)[2])
        logic(res) == Main_set_operation_flags([e EXCEPT !.a = res], res)
        \* x >> n on a u32 holding a 16-bit value, n already masked to 5 bits
        shr32(x, n) == IF n >= 16 THEN 0 ELSE x \div Pow2(n)
        shifted(res, carry) ==
            LET x == Main_set_operation_flags([e EXCEPT !.a = res], res)
            IN  [x EXCEPT !.flags = BitOrN(@, ((carry % W16) * Pow2(CARRY)) % W16, 16)]
        jump_if(target) ==
            LET t == Main_check_condition(e, i.n)
            IN  IF ~t.ok THEN Emu_panic(e)
                ELSE IF t.val THEN [e EXCEPT !.pc = target] ELSE e
        loop(target) ==
            LET c == wrapping_sub(e.c, 1)
            IN  IF c # 0 THEN [e EXCEPT !.c = c, !.pc = target]
                ELSE [e EXCEPT !.c = c]
        cin == Emu_flag(e, CARRY)
    IN  CASE i.op = "LoadFrom" -> [e EXCEPT !.a = r]
          [] i.op = "StoreTo" -> [e EXCEPT ![i.reg] = e.a]
          [] i.op = "Zero" -> [e EXCEPT ![i.reg] = 0]
          [] i.op = "LoadImmediate" -> [e EXCEPT ![i.reg] = i.val]
          [] i.op = "LoadAddress" -> loadAt(i.val)
          [] i.op = "LoadIndirect" -> loadAt(e.b)
          [] i.op = "LoadRelative" -> loadRel(e.b)
          [] i.op = "LoadStackRelative" -> loadRel(e.sp)
          [] i.op = "StoreAddress" -> storeAt(i.val)
          [] i.op = "StoreIndirect" -> storeAt(e.b)
          [] i.op = "StoreRelative" -> storeRel(e.b)
          [] i.op = "StoreStackRelative" -> storeRel(e.sp)
          [] i.op = "StoreByteAddress" -> storeByteAt(i.val)
          [] i.op = "StoreByteIndirect" -> storeByteAt(e.b)
          [] i.op = "StoreByteRelative" -> storeByteRel(e.b)
          [] i.op = "StoreByteStackRelative" -> storeByteRel(e.sp)
          [] i.op = "Not" -> logic(BitNot16(e.a))
          [] i.op = "Increment" ->
                arith("a", overflowing_add(e.a, 1)[1], overflowing_add(e.a, 1)[2],
                      overflowing_add_i16(e.a, 1))
          [] i.op = "Decrement" ->
                arith("a", overflowing_sub(e.a, 1)[1], overflowing_sub(e.a, 1)[2],
                      overflowing_sub_i16(e.a, 1))
          [] i.op = "And" -> logic(BitAndN(e.a, r, 16))
          [] i.op = "Or" -> logic(BitOrN(e.a, r, 16))
          [] i.op = "Xor" -> logic(BitXorN(e.a, r, 16))
          [] i.op = "LeftShift" ->
                IF r >= 16 /\ overflow_checks THEN Emu_panic(e)
                ELSE shifted((e.a * Pow2(r % 16)) % W16, shr32(e.a, (16 - r) % 32))
          [] i.op = "RightShift" ->
                IF (r = 0 \/ r >= 16) /\ overflow_checks THEN Emu_panic(e)
                ELSE shifted(e.a \div Pow2(r % 16), shr32(e.a, (r - 1) % 32))
          [] i.op = "Add" ->
                arith("a", overflowing_add(e.a, r)[1], overflowing_add(e.a, r)[2],
                      overflowing_add_i16(e.a, r))
          [] i.op = "Subtract" ->
                arith("a", overflowing_sub(e.a, r)[1], overflowing_sub(e.a, r)[2],
                      overflowing_sub_i16(e.a, r))
          [] i.op = "AddWithCarry" ->
                arith("a", carrying_add(e.a, r, cin)[1], carrying_add(e.a, r, cin)[2],
                      carrying_add_i16(e.a, r, cin))
          [] i.op = "SubtractWithBorrow" ->
                arith("a", borrowing_sub(e.a, r, cin)[1], borrowing_sub(e.a, r, cin)[2],
                      borrowing_sub_i16(e.a, r, cin))
          [] i.op = "Compare" -> compare(e.a, r)
          [] i.op = "CompareImmediate" -> compare(e.a, i.val)
          [] i.op = "IncrementC" ->
                arith("c", overflowing_add(e.c, 1)[1], overflowing_add(e.c, 1)[2],
                      overflowing_add_i16(e.c, 1))
          [] i.op = "DecrementC" ->
                Main_set_operation_flags([e EXCEPT !.c = wrapping_sub(e.c, 1)],
                                         wrapping_sub(e.c, 1))
          [] i.op = "CompareC" -> compare(e.c, r)
          [] i.op = "CompareCImmediate" -> compare(e.c, i.val)
          [] i.op = "Jump" -> [e EXCEPT !.pc = i.val]
          [] i.op = "JumpRelative" -> [e EXCEPT !.pc = wrapping_add(e.b, i.val)]
          [] i.op = "JumpIf" -> jump_if(i.val)
          [] i.op = "JumpRelativeIf" -> jump_if(wrapping_add(e.b, i.val))
          [] i.op = "Loop" -> loop(i.val)
          [] i.op = "LoopRelative" -> loop(wrapping_add(e.b, i.val))
          [] i.op = "Push" -> push(e.a)
          [] i.op = "PushPC" -> push(e.pc)
          [] i.op = "PushFlags" -> push(e.flags)
          [] i.op = "Pop" -> pop("a")
          [] i.op = "PopPC" -> pop("pc")
          [] i.op = "PopFlags" -> pop("flags")
          [] i.op = "Input" -> [e EXCEPT !.a = Peek(e.memory, e.d)]
          [] i.op = "Output" -> [e EXCEPT !.memory = Poke(@, e.d, lo(e.a))]
          [] i.op = "SetInterrupt" ->
                [e EXCEPT !.memory = Poke(Poke(@, 65534, lo(i.val)), 65535, hi(i.val))]
          [] i.op = "Clear" ->
                IF i.n > 15 /\ overflow_checks THEN Emu_panic(e)
                ELSE [e EXCEPT !.flags = BitAndN(@, BitNot16(Pow2(i.n % 16)), 16)]
          [] i.op = "Set" ->
                IF i.n > 15 /\ overflow_checks THEN Emu_panic(e)
                ELSE [e EXCEPT !.flags = BitOrN(@, Pow2(i.n % 16), 16)]

\* the instruction Emulator::advance decodes: from_iter on memory.iter().cycle()
Main_next_instruction(e) ==
    Main_from_iter(<<Peek(e.memory, 0), Peek(e.memory, 1), Peek(e.memory, 2)>>)

\* Emulator::advance (src/src/main.rs)
Main_advance(e) ==
    LET d == Main_next_instruction(e)
    IN  IF ~d.ok THEN Emu_panic(e)
        ELSE Main_execute([e EXCEPT !.pc = wrapping_add(@, d.count)], d.ins)

(***************************************************************************)
(* Inputs of the model.                                                    *)
(***************************************************************************)
\* Words at the edges of the unsigned and signed ranges.
EdgeWords ==
    (0 .. Edge) \cup ((32767 - Edge) .. (32768 + Edge)) \cup ((65535 - Edge) .. 65535)

\* Values of the operand register: the edge words and every shift count.
OperandWords == EdgeWords \cup (0 .. MaxShift)

\* Flag bytes: none, each arithmetic flag pattern used below, the
\* non-arithmetic bits alone, and all bits.
FlagBytes == {0, 4, 8, 12, 240, 255}

\* Bytes standard input may yield: a character, or 255 at end of input.
StdinBytes == {65, 255}

\* Emulator::new (src/src/emulator/mod.rs): a locked, zeroed cartridge, zeroed
\* RAM and the registers of reset()
reset_cpu(s) ==
    LET w == MMU_read_word(s, 65534, 255)
    IN  [s EXCEPT !.cpu = [a |-> 0, b |-> 0, c |-> 0, d |-> 0, pc |-> w.val,
                           sp |-> 8191, flags |-> 0, ir_flags |-> 0]]

NewMachine ==
    reset_cpu([cpu |-> [a |-> 0, b |-> 0, c |-> 0, d |-> 0, pc |-> 0,
                        sp |-> 8191, flags |-> 0, ir_flags |-> 0],
               ram |-> EmptyMem, rom |-> EmptyMem, locked |-> TRUE,
               stdout |-> <<>>, crashed |-> FALSE])

Install(s) ==
    /\ cpu' = s.cpu
    /\ ram' = s.ram
    /\ rom' = s.rom
    /\ locked' = s.locked
    /\ stdout' = s.stdout
    /\ crashed' = s.crashed

Init ==
    /\ cpu = NewMachine.cpu
    /\ ram = NewMachine.ram
    /\ rom = NewMachine.rom
    /\ locked = NewMachine.locked
    /\ stdout = NewMachine.stdout
    /\ crashed = FALSE
    /\ overflow_checks \in BOOLEAN
    /\ phase = "new"
    /\ steps = 0
    /\ prev = NewMachine
    /\ last = NoIns
    /\ prev2 = NewMachine
    /\ last2 = NoIns
    /\ emu = NewEmulator
    /\ arr = <<>>
    /\ bytes = <<>>
    /\ decoded = <<>>

\* The host sets the public registers of the CPU before it runs a program.
Setup ==
    /\ phase = "new"
    /\ \E a \in EdgeWords, b \in OperandWords, f \in FlagBytes :
          cpu' = [cpu EXCEPT !.a = a, !.b = b, !.flags = f, !.pc = 32768]
    /\ phase' = "ready"
    /\ UNCHANGED <<ram, rom, locked, stdout, crashed, overflow_checks,
                   steps, histVars, otherDrafts>>

\* Emulator::advance_cpu: decode at pc, move pc past the instruction, execute.
advance_cpu(i, inb) ==
    LET s0 == Machine
        s1 == [s0 EXCEPT !.cpu.pc = wrapping_add(@, byte_length(i))]
    IN  /\ ~crashed
        /\ Install(execute_cpu_instruction(s1, i, inb))
        /\ prev' = s0
        /\ last' = i
        /\ prev2' = prev
        /\ last2' = last
        /\ steps' = steps + 1
        /\ UNCHANGED <<overflow_checks, otherDrafts>>

\* The arithmetic, logical, shift, rotate, compare and test instructions.
AluRegOps == {"And", "Or", "Xor", "ShiftLeft", "ShiftRight", "Add", "Subtract",
              "RotateLeft", "RotateRight", "AddWithCarry", "SubtractWithBorrow",
              "Negate", "Not", "Increment", "Decrement", "Compare", "Test"}
AluImmOps == {"CompareImmediate", "TestImmediate"}

AluInstructions ==
    {Ins(op, reg, "-", 0, 0) : op \in AluRegOps, reg \in Registers}
    \cup {Ins(op, reg, "-", v, 0) : op \in AluImmOps, reg \in {"a", "b"}, v \in EdgeWords}

\* One instruction of the arithmetic-logic family on the prepared machine.
AdvanceAlu ==
    /\ phase = "ready"
    /\ \E i \in AluInstructions : advance_cpu(i, 255)
    /\ phase' = "done"

Next == Setup \/ AdvanceAlu

(***************************************************************************)
(* SpecRun: short programs of stack instructions on the CPU draft.         *)
(***************************************************************************)
\* Stack pointers: the reset value, the ends of the address space, the
\* mapped RAM window, the cartridge and the edges of the RAM array.
StackPointers == {0, 1, 2, 8191, RAM_SIZE, RAM_SIZE + 1, 16384, 20480, 36864, 65535}

\* The host prepares the machine: main() unlocks the cartridge or leaves it
\* locked, and the program has loaded the stack pointer and two registers.
SetupStack ==
    /\ phase = "new"
    /\ \E sp \in StackPointers, a \in EdgeWords, b \in EdgeWords, l \in BOOLEAN :
          /\ cpu' = [cpu EXCEPT !.sp = sp, !.a = a, !.b = b, !.pc = 32768]
          /\ locked' = l
    /\ phase' = "ready"
    /\ UNCHANGED <<ram, rom, stdout, crashed, overflow_checks,
                   steps, histVars, otherDrafts>>

StackInstructions ==
    {Ins(op, reg, "-", 0, 0) : op \in {"PushRegister", "PopRegister"},
                               reg \in {"a", "b"}}

\* One stack instruction; the run stops after MaxSteps instructions.
AdvanceStack ==
    /\ phase = "ready"
    /\ steps < MaxSteps
    /\ \E i \in StackInstructions : advance_cpu(i, 255)
    /\ UNCHANGED phase

NextRun == SetupStack \/ AdvanceStack

SpecRun == Init /\ [][NextRun]_vars

(***************************************************************************)
(* SpecIsa: the codec of src/src/isa.rs on every instruction value.        *)
(***************************************************************************)
U8 == 0 .. 255

\* Words of an instruction operand: both bytes equal, low byte only, high
\* byte only, and the edge words.
CodecWords == EdgeWords \cup {255, 256}

IsaRegOps == {"LoadFrom", "StoreTo", "Zero", "Not", "Increment", "Decrement",
              "And", "Or", "Xor", "LeftShift", "RightShift", "Add", "Subtract",
              "AddWithCarry", "SubtractWithBorrow", "CompareA"}
IsaRegWordOps == {"LoadImmediate", "CompareImmediate"}
IsaWordOps == {"LoadAddress", "LoadOffset", "LoadStackOffset", "LoadByteAddress",
               "LoadByteOffset", "LoadByteStackOffset", "StoreAddress",
               "StoreOffset", "StoreStackOffset", "StoreByteAddress",
               "StoreByteOffset", "StoreByteStackOffset", "Jump", "JumpOffset",
               "JumpRelative", "Loop", "LoopOffset", "LoopRelative", "Call",
               "CallOffset", "CallRelative", "SetInterrupt"}
IsaPlainOps == {"LoadIndirect", "LoadByteIndirect", "StoreIndirect",
                "StoreByteIndirect", "Push", "PushPC", "PushFlags", "Pop",
                "Return", "PopFlags", "Input", "Output"}
IsaCondOps == {"JumpIf", "JumpOffsetIf", "JumpRelativeIf"}
IsaFlagOps == {"Clear", "Set"}

\* The values of enum Instruction with word operands in words and u8
\* operands in smalls.
IsaInstructions(words, smalls) ==
    {Ins(op, reg, "-", 0, 0) : op \in IsaRegOps, reg \in Registers}
    \cup {Ins(op, reg, "-", w, 0) : op \in IsaRegWordOps, reg \in Registers, w \in words}
    \cup {Ins(op, "-", "-", w, 0) : op \in IsaWordOps, w \in words}
    \cup {Ins(op, "-", "-", 0, 0) : op \in IsaPlainOps}
    \cup {Ins(op, "-", "-", w, n) : op \in IsaCondOps, w \in words, n \in smalls}
    \cup {Ins(op, "-", "-", 0, n) : op \in IsaFlagOps, n \in smalls}

\* Vec::<u8>::from(instruction)
Encode ==
    /\ phase = "new"
    /\ \E i \in IsaInstructions(CodecWords, U8) :
          /\ bytes' = Isa_encode(i)
          /\ last' = i
    /\ phase' = "encoded"
    /\ UNCHANGED <<cpuVars, emu, arr, decoded, crashed, overflow_checks, steps,
                   prev, prev2, last2>>

\* Instruction::from_iter(bytes.iter())
Decode ==
    /\ phase = "encoded"
    /\ decoded' = Isa_from_iter(bytes)
    /\ phase' = "done"
    /\ UNCHANGED <<cpuVars, emu, arr, bytes, crashed, overflow_checks, steps,
                   histVars>>

NextIsa == Encode \/ Decode

SpecIsa == Init /\ [][NextIsa]_vars

(***************************************************************************)
(* SpecEmu: one step of the Emu draft on a program placed in memory.       *)
(***************************************************************************)
\* Where the program is placed: the start and the last bytes of memory.
Origins == {0, MEM_SIZE - 3, MEM_SIZE - 2, MEM_SIZE - 1}

ProgramWords == {2, 65534}
BaseWords == {1, 65535}

\* Flag words: the arithmetic flag patterns, a pending interrupt, and every
\* bit but the pending interrupt.
EmuFlagWords == {0, 4, 8, 12, 76, 65471}

\* The host builds the emulator on a memory image holding one instruction
\* and sets its public registers.
SetupEmu ==
    /\ phase = "new"
    /\ \E i \in IsaInstructions(ProgramWords, 0 .. 15), origin \in Origins,
          a \in EdgeWords, b \in BaseWords, f \in EmuFlagWords :
          LET image == Mem_write_array(EmptyMem, MEM_SIZE, origin, Isa_encode(i))
          IN  /\ image.ok
              /\ emu' = [NewEmulator EXCEPT !.memory = image.mem, !.pc = origin,
                                            !.a = a, !.b = b, !.c = b, !.flags = f]
              /\ bytes' = Isa_encode(i)
              /\ last2' = i
    /\ phase' = "ready"
    /\ UNCHANGED <<cpuVars, arr, decoded, crashed, overflow_checks, steps,
                   prev, last, prev2>>

\* Emulator::advance
AdvanceEmu ==
    /\ phase = "ready"
    /\ \E inb \in {65, -1} : emu' = Emu_advance(emu, inb)
    /\ decoded' = Emu_next_instruction(emu)
    /\ last' = Emu_next_instruction(emu).ins
    /\ prev' = emu
    /\ steps' = steps + 1
    /\ phase' = "done"
    /\ UNCHANGED <<cpuVars, arr, bytes, crashed, overflow_checks, prev2, last2>>

NextEmu == SetupEmu \/ AdvanceEmu

SpecEmu == Init /\ [][NextEmu]_vars

(***************************************************************************)
(* SpecMem: words written and read through the Memory trait.               *)
(***************************************************************************)
MemAddresses == {0, 1, 255, 32767, MEM_SIZE - 2, MEM_SIZE - 1}
MemWords == CodecWords

\* The container is a [u8; MEM_SIZE] ("array") or a slice of it ("slice"),
\* zeroed or holding 255 in the two bytes at the address.
MemFill ==
    /\ phase = "new"
    /\ \E kind \in {"array", "slice"}, address \in MemAddresses, f \in {0, 255} :
          LET m1 == Mem_write_byte(EmptyMem, MEM_SIZE, address, f).mem
              m2 == Mem_write_byte(m1, MEM_SIZE, address + 1, f).mem
          IN  /\ arr' = [kind |-> kind, data |-> m2, crashed |-> FALSE]
              /\ last' = Ins("fill", "-", "-", f, address)
    /\ phase' = "ready"
    /\ UNCHANGED <<cpuVars, emu, bytes, decoded, crashed, overflow_checks, steps,
                   prev, prev2, last2>>

\* memory.write_word(address, value)
MemWriteWord ==
    /\ phase = "ready"
    /\ \E value \in MemWords :
          LET address == last.n
              w == IF arr.kind = "array"
                   THEN Array_write_word(arr.data, MEM_SIZE, address, value)
                   ELSE Slice_write_word(arr.data, MEM_SIZE, address, value)
          IN  /\ arr' = [arr EXCEPT !.data = w.mem, !.crashed = ~w.ok]
              /\ last' = Ins("write_word", "-", "-", value, address)
    /\ phase' = "written"
    /\ UNCHANGED <<cpuVars, emu, bytes, decoded, crashed, overflow_checks, steps,
                   prev, prev2, last2>>

\* memory.read_word(address)
MemReadWord ==
    /\ phase = "written"
    /\ ~arr.crashed
    /\ LET r == Mem_read_word(arr.data, MEM_SIZE, last.n)
       IN  /\ decoded' = r.val
           /\ arr' = [arr EXCEPT !.crashed = ~r.ok]
    /\ phase' = "done"
    /\ UNCHANGED <<cpuVars, emu, bytes, crashed, overflow_checks, steps, histVars>>

NextMem == MemFill \/ MemWriteWord \/ MemReadWord

SpecMem == Init /\ [][NextMem]_vars

(***************************************************************************)
(* SpecMain: runs of the Main draft on two-instruction memory images.      *)
(***************************************************************************)
MainWords == {1, 17, 32768, 65535}

MainProgram ==
    {Ins("LoadImmediate", reg, "-", w, 0) : reg \in {"a", "b"}, w \in MainWords}
    \cup {Ins(op, "-", "-", 0, 0) :
            op \in {"Not", "Increment", "Decrement", "IncrementC", "DecrementC",
                    "Push", "Pop", "PushPC", "LoadIndirect", "Output"}}
    \cup {Ins(op, "b", "-", 0, 0) :
            op \in {"LoadFrom", "StoreTo", "And", "Or", "Xor", "LeftShift",
                    "RightShift", "Add", "Subtract", "AddWithCarry", "Compare"}}
    \cup {Ins(op, "-", "-", w, 0) :
            op \in {"Jump", "StoreAddress", "LoadAddress", "LoadRelative"},
            w \in {17, 65535}}
    \cup {Ins("JumpIf", "-", "-", 17, n) : n \in {0, 4, 8}}
    \cup {Ins(op, "-", "-", 0, CARRY) : op \in {"Set", "Clear"}}

\* main(): Emulator::new on the image of two instructions
LoadMain ==
    /\ phase = "new"
    /\ \E i1 \in MainProgram, i2 \in MainProgram :
          /\ bytes' = Main_encode(i1) \o Main_encode(i2)
          /\ emu' = Main_new(Main_encode(i1) \o Main_encode(i2))
    /\ phase' = "ready"
    /\ UNCHANGED <<cpuVars, arr, decoded, crashed, overflow_checks, steps, histVars>>

\* Emulator::advance; the run stops after MaxSteps steps or a panic
AdvanceMain ==
    /\ phase = "ready"
    /\ steps < MaxSteps
    /\ ~emu.crashed
    /\ emu' = Main_advance(emu)
    /\ decoded' = Main_next_instruction(emu)
    /\ last' = Main_next_instruction(emu).ins
    /\ prev' = emu
    /\ prev2' = prev
    /\ last2' = last
    /\ steps' = steps + 1
    /\ UNCHANGED <<cpuVars, arr, bytes, crashed, overflow_checks, phase>>

NextMain == LoadMain \/ AdvanceMain

SpecMain == Init /\ [][NextMain]_vars

(***************************************************************************)
(* Step draft: src/emulator/src/{lib,cpu,memory,step}.rs on the helpers    *)
(* of src/utils/src.  The machine is a record [cpu, memory]; memory is the *)
(* ChainedIO of a 32 KiB RAM cursor followed by a 32 KiB ROM cursor, each  *)
(* kept as its non-zero bytes.  Mmu::write_byte, Mmu::write_word and       *)
(* ConditionCode::meets are called by step.rs but are not in the sources.  *)
(***************************************************************************)
\* Cursor<[u8; 0x8000]>: the length ChainedIO::new measures for each device
LEN_FIRST == 32768

\* Cpu::default
Cpu_new == [a |-> 0, b |-> 0, c |-> 0, d |-> 0, sp |-> 32512, pc |-> 0, flags |-> 0]

\* Mmu::new(Ram::new([0; _]), Box::new(SimpleRom::new([0; _])))
Mmu_new == [first |-> EmptyMem, second |-> EmptyMem]

\* ChainedIO::seek(Start(pos)) then read of one byte: the first device
\* below len_first, the second device at pos - len_first above
ChainedIO_read(m, pos) ==
    IF pos < LEN_FIRST THEN Peek(m.first, pos) ELSE Peek(m.second, pos - LEN_FIRST)

\* ChainedIO::seek(Start(pos)) then write of one byte
ChainedIO_write(m, pos, value) ==
    IF pos < LEN_FIRST
    THEN [m EXCEPT !.first = Poke(@, pos, value)]
    ELSE [m EXCEPT !.second = Poke(@, pos - LEN_FIRST, value)]

\* Mmu::read_byte: every u16 position is inside the 64 KiB chain, so
\* read_exact never meets the end of the stream
Mmu_read_byte(m, pos) == ChainedIO_read(m, pos)

\* Mmu::read_word
Mmu_read_word(m, pos) ==
    Mmu_read_byte(m, pos) + 256 * Mmu_read_byte(m, wrapping_add(pos, 1))

\* Mmu::write_byte
Mmu_write_byte(m, pos, value) == ChainedIO_write(m, pos, value % 256)

\* Mmu::write_word: low byte at pos, high byte at pos + 1
Mmu_write_word(m, pos, value) ==
    Mmu_write_byte(Mmu_write_byte(m, pos, value % 256),
                   wrapping_add(pos, 1), value \div 256)

\* Flag::to_bitmask
to_bitmask(flag) == Pow2(flag)

\* Emulator::new before its reset
StepMachine == [cpu |-> Cpu_new, memory |-> Mmu_new]

\* Emulator::reset reading the vector at the old PC before renewing the CPU
Emulator_reset_VectorAtPC(e) ==
    LET pc == Mmu_read_word(e.memory, wrapping_add(65534, e.cpu.pc))
        c == [Cpu_new EXCEPT !.pc = pc]
    IN  [e EXCEPT !.cpu = IF pc = 0
                          THEN [c EXCEPT !.flags = BitOrN(@, to_bitmask(HALT), 16)]
                          ELSE c]

\* Emulator::reset (src/emulator/src/lib.rs)
Emulator_reset(e) ==
    LET pc == Mmu_read_word(e.memory, 65534)
        c == [Cpu_new EXCEPT !.pc = pc]
    IN  [e EXCEPT !.cpu = IF pc = 0
                          THEN [c EXCEPT !.flags = BitOrN(@, to_bitmask(HALT), 16)]
                          ELSE c]

(***************************************************************************)
(* SpecReset: reset of the Step draft and of the CPU draft from machines   *)
(* whose registers and reset vector the host has set.                      *)
(***************************************************************************)
\* Reset vectors: zero, the low byte only, the high byte only, both bytes
ResetVectors == {0, 52, 4608, 4660, 65535}

\* Register contents before the reset
DirtyWords == {0, Edge, 32512}

\* Flags before the reset: clear, HALT, the arithmetic flags
DirtyFlags == {0, 128, 15}

\* The host loads a ROM image that holds the vector (Mmu::new with the ROM
\* device, Emulator::from_rom) and the program has run: the registers hold
\* arbitrary values.
LoadVector ==
    /\ phase = "new"
    /\ \E v \in ResetVectors, a \in DirtyWords, sp \in DirtyWords,
          pc \in DirtyWords, f \in DirtyFlags :
          /\ emu' = [cpu |-> [Cpu_new EXCEPT !.a = a, !.d = a, !.sp = sp,
                                            !.pc = pc, !.flags = f],
                     memory |-> Mmu_write_word(Mmu_new, 65534, v)]
          /\ cpu' = [cpu EXCEPT !.a = a, !.d = a, !.sp = sp, !.pc = pc,
                                !.flags = f, !.ir_flags = a]
          /\ rom' = Poke(Poke(rom, 32766, v % 256), 32767, v \div 256)
    /\ \E draft \in {"step", "cpu"} : phase' = draft
    /\ UNCHANGED <<ram, locked, stdout, crashed, overflow_checks, steps,
                   histVars, arr, bytes, decoded>>

\* Emulator::reset of the Step draft
Reset ==
    /\ phase = "step"
    /\ steps < MaxSteps
    /\ emu' = Emulator_reset(emu)
    /\ prev' = emu
    /\ prev2' = prev
    /\ steps' = steps + 1
    /\ UNCHANGED <<cpuVars, crashed, overflow_checks, phase, last, last2,
                   arr, bytes, decoded>>

\* Emulator::reset of the CPU draft
ResetCpu ==
    /\ phase = "cpu"
    /\ steps < MaxSteps
    /\ ~crashed
    /\ Install(reset_cpu(Machine))
    /\ prev' = Machine
    /\ prev2' = prev
    /\ steps' = steps + 1
    /\ UNCHANGED <<overflow_checks, phase, last, last2, otherDrafts>>

NextReset == LoadVector \/ Reset \/ ResetCpu

SpecReset == Init /\ [][NextReset]_vars

(***************************************************************************)
(* Step draft: registers, condition codes and Emulator::step.              *)
(***************************************************************************)
\* impl TryFrom<&u8> for Register (src/utils/src/register.rs): code 4 and
\* codes above 7 name no register
StepRegOf(n) ==
    CASE n = 0 -> "a" [] n = 1 -> "b" [] n = 2 -> "c" [] n = 3 -> "d"
      [] n = 5 -> "sp" [] n = 6 -> "pc" [] n = 7 -> "flags" [] OTHER -> "-"

\* A decoder that takes the destination from the low nibble.
pair_from_SrcHigh(value) ==
    LET dst == StepRegOf(value % 16)
        src == StepRegOf(value \div 16)
    IN  [ok |-> dst # "-" /\ src # "-", dst |-> dst, src |-> src]

\* Register::pair_from: destination in the high nibble, source in the low
pair_from(value) ==
    LET dst == StepRegOf(value \div 16)
        src == StepRegOf(value % 16)
    IN  [ok |-> dst # "-" /\ src # "-", dst |-> dst, src |-> src]

\* impl TryFrom<u8> for ConditionCode: every value 0 .. 15 names a code
ConditionCode_try_from(value) ==
    CASE value = 4 -> "B" [] value = 5 -> "BE" [] value = 12 -> "AE"
      [] value = 13 -> "A" [] value = 6 -> "L" [] value = 7 -> "LE"
      [] value = 14 -> "GE" [] value = 15 -> "G" [] value = 0 -> "Z"
      [] value = 1 -> "S" [] value = 2 -> "C" [] value = 3 -> "O"
      [] value = 8 -> "NZ" [] value = 9 -> "NS" [] value = 10 -> "NC"
      [] value = 11 -> "NO" [] OTHER -> "-"

\* ConditionCode::meets, from the condition table: the predicate the table
\* gives for each mnemonic
meets(cc, flags) ==
    LET z == Bit(flags, ZERO) = 1
        s == Bit(flags, SIGN) = 1
        c == Bit(flags, CARRY) = 1
        o == Bit(flags, OVERFLOW) = 1
    IN  CASE cc = "Z" -> z [] cc = "S" -> s [] cc = "C" -> c [] cc = "O" -> o
          [] cc = "NZ" -> ~z [] cc = "NS" -> ~s [] cc = "NC" -> ~c [] cc = "NO" -> ~o
          [] cc = "B" -> c [] cc = "BE" -> c \/ z
          [] cc = "A" -> ~c [] cc = "AE" -> ~c /\ ~z
          [] cc = "L" -> s # o [] cc = "LE" -> z \/ (s # o)
          [] cc = "GE" -> s = o [] cc = "G" -> ~z /\ (s = o)

\* u16::wrapping_add_signed(offset as i8 as i16)
wrapping_add_signed(x, byte) ==
    (x + (IF byte >= 128 THEN byte - 256 ELSE byte)) % W16

\* Emulator::next_byte: the byte at PC, PC moved by one
next_byte(e) ==
    [e |-> [e EXCEPT !.cpu.pc = wrapping_add(@, 1)],
     val |-> Mmu_read_byte(e.memory, e.cpu.pc)]

\* Emulator::next_word: the word at PC, PC moved by two
next_word(e) ==
    [e |-> [e EXCEPT !.cpu.pc = wrapping_add(@, 2)],
     val |-> Mmu_read_word(e.memory, e.cpu.pc)]

\* Emulator::push
push(e, value) ==
    LET sp == wrapping_sub(e.cpu.sp, 2)
    IN  [e EXCEPT !.cpu.sp = sp, !.memory = Mmu_write_word(@, sp, value)]

\* Emulator::pop
pop(e) ==
    [e |-> [e EXCEPT !.cpu.sp = wrapping_add(@, 2)],
     val |-> Mmu_read_word(e.memory, e.cpu.sp)]

\* Result<(), EmulationError> with the machine the call leaves behind
StepOk(e) == [e |-> e, err |-> "-"]
StepErr(e, err) == [e |-> e, err |-> err]

\* The mode match of the branch family (op & !0x07) up to the target: mode
\* 0x28 does nothing, mode 0x38 pushes `pushed`, and the arm of mode 0x30 is
\* guarded by "the condition is not met" and returns Ok(()).  When the
\* condition is met the guard fails and the match falls to its last arm,
\* unreachable!().  The result is the machine and whether the arm goes on to
\* its target.
branch_mode(e, op, pushed) ==
    LET mode == BitAndN(op, 248, 8)
        n == next_byte(e)
        cc == ConditionCode_try_from(n.val)
    IN  CASE mode = 40 -> [e |-> e, err |-> "-", go |-> TRUE]
          [] mode = 48 ->
               IF cc = "-" THEN [e |-> n.e, err |-> "InvalidCondition", go |-> FALSE]
               ELSE IF ~meets(cc, n.e.cpu.flags)
                    THEN [e |-> n.e, err |-> "-", go |-> FALSE]
                    ELSE [e |-> n.e, err |-> "panic", go |-> FALSE]
          [] mode = 56 -> [e |-> push(e, pushed), err |-> "-", go |-> TRUE]

\* Emulator::step (src/emulator/src/step.rs)
step(e) ==
    LET f == next_byte(e)
        op == f.val
        e1 == f.e
        w == next_word(e1)
        p == next_byte(e1)
        pair == pair_from(p.val)
        gpr == StepRegOf(op % 4)
        LoadA(m, value) == StepOk([m EXCEPT !.cpu.a = value])
        Branch(pushed, Target(_)) ==
            LET m == branch_mode(e1, op, pushed)
            IN  IF m.go THEN StepOk(Target(m.e)) ELSE [e |-> m.e, err |-> m.err]
        Rel(m) == LET n == next_byte(m)
                  IN  [n.e EXCEPT !.cpu.pc = wrapping_add_signed(m.cpu.pc, n.val)]
        Abs(m) == LET n == next_word(m) IN [n.e EXCEPT !.cpu.pc = n.val]
        SpOff(m) == LET n == next_word(m)
                    IN  [n.e EXCEPT !.cpu.pc = wrapping_add(n.val, n.e.cpu.sp)]
        RegOff(m) == LET n == next_word(m)
                     IN  [n.e EXCEPT !.cpu.pc = wrapping_add(n.val, n.e.cpu[gpr])]
    IN  CASE op = 0 -> LoadA(w.e, Mmu_read_byte(w.e.memory, w.val))
          [] op = 1 -> LoadA(w.e, Mmu_read_byte(w.e.memory, wrapping_add(w.val, w.e.cpu.sp)))
          [] op = 3 ->
               IF ~pair.ok THEN StepErr(p.e, "RegisterIndexError")
               ELSE StepOk([p.e EXCEPT !.cpu[pair.dst] =
                       wrapping_add(Mmu_read_byte(p.e.memory, p.e.cpu[pair.src]), p.e.cpu.sp)])
          [] op = 4 -> LoadA(w.e, Mmu_read_word(w.e.memory, w.val))
          [] op = 5 -> LoadA(w.e, Mmu_read_word(w.e.memory, wrapping_add(w.val, w.e.cpu.sp)))
          [] op = 7 ->
               IF ~pair.ok THEN StepErr(p.e, "RegisterIndexError")
               ELSE StepOk([p.e EXCEPT !.cpu[pair.dst] =
                       wrapping_add(Mmu_read_word(p.e.memory, p.e.cpu[pair.src]), p.e.cpu.sp)])
          [] op \in 8 .. 11 ->
               LoadA(w.e, Mmu_read_byte(w.e.memory, wrapping_add(w.val, w.e.cpu[gpr])))
          [] op \in 12 .. 15 ->
               LoadA(w.e, Mmu_read_word(w.e.memory, wrapping_add(w.val, w.e.cpu[gpr])))
          [] op = 16 ->
               StepOk([w.e EXCEPT !.memory = Mmu_write_byte(@, w.val, w.e.cpu.a)])
          [] op = 17 ->
               StepOk([w.e EXCEPT !.memory =
                       Mmu_write_byte(@, wrapping_add(w.val, w.e.cpu.sp), w.e.cpu.a)])
          [] op = 19 ->
               IF ~pair.ok THEN StepErr(p.e, "RegisterIndexError")
               ELSE StepOk([p.e EXCEPT !.memory =
                       Mmu_write_byte(@, p.e.cpu[pair.dst], p.e.cpu[pair.src])])
          [] op = 20 ->
               StepOk([w.e EXCEPT !.memory = Mmu_write_word(@, w.val, w.e.cpu.a)])
          [] op = 21 ->
               StepOk([w.e EXCEPT !.memory =
                       Mmu_write_word(@, wrapping_add(w.val, w.e.cpu.sp), w.e.cpu.a)])
          [] op = 23 ->
               IF ~pair.ok THEN StepErr(p.e, "RegisterIndexError")
               ELSE StepOk([p.e EXCEPT !.memory =
                       Mmu_write_word(@, p.e.cpu[pair.dst], p.e.cpu[pair.src])])
          [] op \in 24 .. 27 ->
               StepOk([w.e EXCEPT !.memory =
                       Mmu_write_byte(@, wrapping_add(w.val, w.e.cpu[gpr]), w.e.cpu.a)])
          [] op \in 28 .. 31 ->
               StepOk([w.e EXCEPT !.memory =
                       Mmu_write_word(@, wrapping_add(w.val, w.e.cpu[gpr]), w.e.cpu.a)])
          [] op \in 32 .. 35 -> StepOk([p.e EXCEPT !.cpu[gpr] = p.val])
          [] op \in 36 .. 39 -> StepOk([w.e EXCEPT !.cpu[gpr] = w.val])
          [] op \in {40, 48, 56} -> Branch(e1.cpu.pc, Rel)
          [] op \in {41, 49, 57} -> Branch(e1.cpu.pc, Abs)
          [] op \in {42, 50, 58} -> Branch(e1.cpu.pc, SpOff)
          [] op \in {43, 51, 59} ->
               IF ~pair.ok THEN StepErr(p.e, "RegisterIndexError")
               ELSE LET m == branch_mode(p.e, op, p.e.cpu[pair.dst])
                    IN  IF m.go
                        THEN StepOk([m.e EXCEPT !.cpu[pair.dst] = m.e.cpu[pair.src]])
                        ELSE [e |-> m.e, err |-> m.err]
          [] op \in (44 .. 47) \cup (52 .. 55) \cup (60 .. 63) -> Branch(e1.cpu.pc, RegOff)
          [] OTHER -> StepErr(e1, "InvalidOpcode")

(***************************************************************************)
(* SpecStep: the Step draft on one instruction image, up to MaxSteps calls *)
(* of step() or of pop() into PC.                                          *)
(***************************************************************************)
\* Every opcode step() matches, and three it does not
StepOpcodes == ((0 .. 63) \ {2, 6, 18, 22}) \cup {2, 64, 255}

\* The byte after the opcode: a condition code, a register pair or the low
\* byte of a word.  0x00 Z and the pair (a, a); 0x04 and 0x0C the reserved
\* codes, 0x08 NZ, 0x10 no condition and the pair (b, a), 0x65 the pair
\* (pc, sp)
SecondBytes == {0, 4, 8, 12, 16, 101}
ThirdBytes == {0, 2, 128}
FourthBytes == {0, 129}

\* Where the image sits: RAM, the start of the ROM, across the end of memory
StepOrigins == {256, 32768, 65534}

\* FLAGS before the run: clear, ZERO, CARRY, HALT, HALT with ZERO and CARRY
StepFlags == {0, 1, 4, 128, 133}

\* The host builds the Mmu with the image in it, and the program has left
\* values in A and FLAGS; PC is at the image.
LoadStep ==
    /\ phase = "new"
    /\ \E op \in StepOpcodes, x \in SecondBytes, y \in ThirdBytes, z \in FourthBytes,
          origin \in StepOrigins, f \in StepFlags, a \in {Edge, 32769} :
          LET m0 == Mmu_write_byte(Mmu_new, origin, op)
              m1 == Mmu_write_byte(m0, wrapping_add(origin, 1), x)
              m2 == Mmu_write_byte(m1, wrapping_add(origin, 2), y)
              m3 == Mmu_write_byte(m2, wrapping_add(origin, 3), z)
          IN  emu' = [cpu |-> [Cpu_new EXCEPT !.a = a, !.b = 2, !.c = 3, !.d = 4,
                                              !.pc = origin, !.flags = f],
                      memory |-> m3]
    /\ phase' = "ready"
    /\ decoded' = [act |-> "load", op |-> 0, err |-> "-"]
    /\ UNCHANGED <<cpuVars, crashed, overflow_checks, steps, histVars, arr, bytes>>

\* Emulator::step; a panic ends the run
Step ==
    /\ phase = "ready"
    /\ steps < MaxSteps
    /\ decoded.err # "panic"
    /\ emu' = step(emu).e
    /\ decoded' = [act |-> "step", op |-> Mmu_read_byte(emu.memory, emu.cpu.pc),
                   err |-> step(emu).err]
    /\ prev' = emu
    /\ prev2' = prev
    /\ steps' = steps + 1
    /\ UNCHANGED <<cpuVars, crashed, overflow_checks, phase, last, last2, arr, bytes>>

\* The return of a call: Emulator::pop into PC.  The record keeps the opcode
\* of the step it follows (0 when it follows none).
Return ==
    /\ phase = "ready"
    /\ steps < MaxSteps
    /\ decoded.err # "panic"
    /\ emu' = [pop(emu).e EXCEPT !.cpu.pc = pop(emu).val]
    /\ decoded' = [act |-> "return", err |-> "-",
                   op |-> IF decoded.act = "step" /\ decoded.err = "-"
                          THEN decoded.op ELSE 0]
    /\ prev' = emu
    /\ prev2' = prev
    /\ steps' = steps + 1
    /\ UNCHANGED <<cpuVars, crashed, overflow_checks, phase, last, last2, arr, bytes>>

NextStep == LoadStep \/ Step \/ Return

SpecStep == Init /\ [][NextStep]_vars

(***************************************************************************)
(* SpecDecode: the decoders of src/src/isa.rs and src/src/main.rs on byte  *)
(* strings of zero to three bytes, every opcode byte included.             *)
(***************************************************************************)
\* Operand bytes after the opcode
OperandBytes == {0, 255}

\* Inputs of a decoder: nothing, an opcode alone, an opcode with one or with
\* two operand bytes
DecoderInputs ==
    {<<>>}
    \cup {<<op>> : op \in U8}
    \cup {<<op, x>> : op \in U8, x \in OperandBytes}
    \cup {<<op, x, y>> : op \in U8, x \in OperandBytes, y \in OperandBytes}

\* The caller hands the decoder an iterator over a byte string
TakeBytes ==
    /\ phase = "new"
    /\ \E bs \in DecoderInputs : bytes' = bs
    /\ phase' = "bytes"
    /\ UNCHANGED <<cpuVars, emu, arr, decoded, crashed, overflow_checks, steps,
                   histVars>>

\* Instruction::from_iter of src/src/isa.rs
DecodeIsa ==
    /\ phase = "bytes"
    /\ decoded' = Isa_from_iter(bytes)
    /\ phase' = "isa"
    /\ UNCHANGED <<cpuVars, emu, arr, bytes, crashed, overflow_checks, steps,
                   histVars>>

\* Instruction::from_iter of src/src/main.rs
DecodeMain ==
    /\ phase = "bytes"
    /\ decoded' = Main_from_iter(bytes)
    /\ phase' = "main"
    /\ UNCHANGED <<cpuVars, emu, arr, bytes, crashed, overflow_checks, steps,
                   histVars>>

NextDecode == TakeBytes \/ DecodeIsa \/ DecodeMain

SpecDecode == Init /\ [][NextDecode]_vars

(***************************************************************************)
(* SpecJump: one conditional jump of the CPU draft on every flag nibble.   *)
(***************************************************************************)
\* The target of the jump; the instruction itself sits at 0x8000, so the
\* address after it (0x8003) is never the target.
JumpTargets == {4660, 36864}

\* The program has left some combination of ZERO, SIGN, CARRY and OVERFLOW
\* in the flag byte.
SetupJump ==
    /\ phase = "new"
    /\ \E f \in 0 .. 15 : cpu' = [cpu EXCEPT !.flags = f, !.pc = 32768]
    /\ phase' = "ready"
    /\ UNCHANGED <<ram, rom, locked, stdout, crashed, overflow_checks,
                   steps, histVars, otherDrafts>>

\* advance_cpu on a JumpIf(cond, addr) with a four-bit condition code.
AdvanceJump ==
    /\ phase = "ready"
    /\ \E cond \in 0 .. 15, addr \in JumpTargets :
          advance_cpu(Ins("JumpIf", "-", "-", addr, cond), 255)
    /\ phase' = "jumped"

NextJump == SetupJump \/ AdvanceJump

SpecJump == Init /\ [][NextJump]_vars

(***************************************************************************)
(* SpecCond: condition mnemonics parsed by ConditionCode::from_str, turned *)
(* into their numeric code and evaluated by Emulator::check_condition.     *)
(***************************************************************************)
\* <ConditionCode as FromStr>::from_str; "-" is Err(())
ConditionCode_from_str(s) ==
    CASE s = "B" -> "B" [] s = "BE" -> "BE" [] s = "AE" -> "AE" [] s = "A" -> "A"
      [] s = "L" -> "L" [] s = "LE" -> "LE" [] s = "GE" -> "GE" [] s = "G" -> "G"
      [] s = "Z" -> "Z" [] s = "S" -> "S" [] s = "C" -> "C" [] s = "O" -> "O"
      [] s = "NB" -> "AE" [] s = "NBE" -> "A" [] s = "NAE" -> "B"
      [] s = "NA" -> "BE" [] s = "NL" -> "GE" [] s = "NLE" -> "G"
      [] s = "NGE" -> "L" [] s = "NG" -> "LE" [] s = "LT" -> "L"
      [] s = "NLT" -> "GE" [] s = "GT" -> "G" [] s = "NGT" -> "LE"
      [] s = "E" -> "Z" [] s = "NE" -> "NZ" [] s = "EQ" -> "Z" [] s = "NEQ" -> "NZ"
      [] s = "NZ" -> "NZ" [] s = "NS" -> "NS" [] s = "NC" -> "NC" [] s = "NO" -> "NO"
      [] OTHER -> "-"

\* The other encoding of the two unsigned comparisons: AE at 0xD, A at 0xC.
ConditionCode_to_u8_AEat13(value) ==
    CASE value = "B" -> 4 [] value = "BE" -> 5 [] value = "AE" -> 13
      [] value = "A" -> 12 [] value = "L" -> 6 [] value = "LE" -> 7
      [] value = "GE" -> 14 [] value = "G" -> 15 [] value = "Z" -> 0
      [] value = "S" -> 1 [] value = "C" -> 2 [] value = "O" -> 3
      [] value = "NZ" -> 8 [] value = "NS" -> 9 [] value = "NC" -> 10
      [] value = "NO" -> 11

\* <u8 as From<ConditionCode>>::from
ConditionCode_to_u8(value) ==
    CASE value = "B" -> 4 [] value = "BE" -> 5 [] value = "AE" -> 12
      [] value = "A" -> 13 [] value = "L" -> 6 [] value = "LE" -> 7
      [] value = "GE" -> 14 [] value = "G" -> 15 [] value = "Z" -> 0
      [] value = "S" -> 1 [] value = "C" -> 2 [] value = "O" -> 3
      [] value = "NZ" -> 8 [] value = "NS" -> 9 [] value = "NC" -> 10
      [] value = "NO" -> 11

\* Every string from_str matches, and one it does not.
Mnemonics ==
    {"B", "BE", "AE", "A", "L", "LE", "GE", "G", "Z", "S", "C", "O",
     "NB", "NBE", "NAE", "NA", "NL", "NLE", "NGE", "NG", "LT", "NLT", "GT",
     "NGT", "E", "NE", "EQ", "NEQ", "NZ", "NS", "NC", "NO", "XX"}

\* The program has left some combination of ZERO, SIGN, CARRY and OVERFLOW
\* in the flag word.
LoadFlags ==
    /\ phase = "new"
    /\ \E f \in 0 .. 15 : emu' = [emu EXCEPT !.flags = f]
    /\ phase' = "flags"
    /\ UNCHANGED <<cpu, ram, rom, locked, stdout, crashed, overflow_checks,
                   steps, histVars, arr, bytes, decoded>>

\* One mnemonic is parsed, encoded as its numeric code and evaluated on the
\* flags; a string from_str rejects is not evaluated.
EvaluateMnemonic ==
    /\ phase = "flags"
    /\ steps < MaxSteps
    /\ \E s \in Mnemonics :
          LET cc == ConditionCode_from_str(s)
          IN  decoded' = Append(decoded,
                  IF cc = "-"
                  THEN [name |-> s, ok |-> FALSE, code |-> 0, holds |-> FALSE]
                  ELSE [name |-> s, ok |-> TRUE, code |-> ConditionCode_to_u8(cc),
                        holds |-> check_condition(emu, ConditionCode_to_u8(cc))])
    /\ steps' = steps + 1
    /\ UNCHANGED <<cpu, ram, rom, locked, stdout, crashed, overflow_checks,
                   phase, histVars, emu, arr, bytes>>

NextCond == LoadFlags \/ EvaluateMnemonic

SpecCond == Init /\ [][NextCond]_vars

(***************************************************************************)
(* SpecIrq: interrupt requests, WaitForInterrupt and ReturnFromInterrupt   *)
(* on the CPU draft.                                                       *)
(***************************************************************************)
\* Request words: none pending, one request, two requests.
RequestWords == {0, 1, 2, 6}

\* Flag bytes: interrupts disabled or enabled (bit 6), with and without
\* arithmetic flags.
IrqFlags == {0, 5, 64, 69}

\* Stack pointers: the reset value (RAM) and an address in the cartridge.
IrqStacks == {8191, 36864}

\* The cartridge holds the interrupt vector 0x9000 at 0xFFFE; the program
\* has set the stack pointer, the flags and the request word.
SetupIrq ==
    /\ phase = "new"
    /\ \E sp \in IrqStacks, f \in IrqFlags, r \in RequestWords, l \in BOOLEAN :
          /\ cpu' = [cpu EXCEPT !.sp = sp, !.flags = f, !.ir_flags = r,
                                !.pc = 32768]
          /\ locked' = l
    /\ rom' = Poke(rom, 32767, 144)
    /\ phase' = "ready"
    /\ UNCHANGED <<ram, stdout, crashed, overflow_checks, steps, histVars,
                   otherDrafts>>

IrqInstructions ==
    {Ins(op, "-", "-", 0, 0) : op \in {"WaitForInterrupt", "ReturnFromInterrupt"}}
    \cup {Ins(op, "-", "-", 0, n) : op \in {"SetInterruptRequest",
                                            "ClearInterruptRequest"},
                                    n \in {0, 1}}
    \cup {Ins(op, "-", "-", 0, 64) : op \in {"SetFlags", "ClearFlags"}}

\* One instruction of the interrupt family; the run stops after MaxSteps.
AdvanceIrq ==
    /\ phase = "ready"
    /\ steps < MaxSteps
    /\ \E i \in IrqInstructions : advance_cpu(i, 255)
    /\ UNCHANGED phase

NextIrq == SetupIrq \/ AdvanceIrq

SpecIrq == Init /\ [][NextIrq]_vars

(***************************************************************************)
(* SpecHello: the program main() loads into the cartridge, run by its      *)
(* driver loop on the CPU draft.  The codec of this draft is not among the *)
(* sources: the listing of main() gives the instruction at each address.   *)
(***************************************************************************)
\* The listing of main(): $8000 the entry, $A000 the print routine, $A100
\* the echo routine.
HelloProgram ==
    (32768 :> Ins("LoadImmediate", "b", "-", 49152, 0))
    @@ (32771 :> Ins("Call", "-", "-", 40960, 0))
    @@ (32774 :> Ins("Call", "-", "-", 41216, 0))
    @@ (32777 :> Ins("SetFlags", "-", "-", 0, 128))
    @@ (40960 :> Ins("LoadAddressIndirect", "b", "-", 0, 0))
    @@ (40963 :> Ins("Test", "a", "-", 0, 0))
    @@ (40964 :> Ins("JumpIf", "-", "-", 40974, 0))
    @@ (40967 :> Ins("StoreAddressAbsolute", "-", "-", 32512, 0))
    @@ (40970 :> Ins("Increment", "b", "-", 0, 0))
    @@ (40971 :> Ins("JumpAbsolute", "-", "-", 40960, 0))
    @@ (40974 :> Ins("PopPC", "-", "-", 0, 0))
    @@ (41216 :> Ins("LoadAddressAbsolute", "-", "-", 32512, 0))
    @@ (41219 :> Ins("CompareImmediate", "a", "-", 255, 0))
    @@ (41222 :> Ins("JumpIf", "-", "-", 41237, 0))
    @@ (41225 :> Ins("CompareImmediate", "a", "-", 10, 0))
    @@ (41228 :> Ins("JumpIf", "-", "-", 41237, 0))
    @@ (41231 :> Ins("StoreAddressAbsolute", "-", "-", 32512, 0))
    @@ (41234 :> Ins("JumpAbsolute", "-", "-", 41216, 0))
    @@ (41237 :> Ins("LoadImmediate", "a", "-", 10, 0))
    @@ (41240 :> Ins("StoreAddressAbsolute", "-", "-", 32512, 0))
    @@ (41243 :> Ins("PopPC", "-", "-", 0, 0))

\* The messages placed at $C000: "Hi!" and "Hello, World!\n".
HelloMessages ==
    {<<72, 105, 33>>,
     <<72, 101, 108, 108, 111, 44, 32, 87, 111, 114, 108, 100, 33, 10>>}

\* The cartridge image: the message and its terminating zero at offset
\* 0x4000, the reset vector 0x8000 at offset 0x7FFE.
HelloImage(msg) ==
    [x \in {16384 + k - 1 : k \in 1 .. Len(msg)} \cup {32767} |->
        IF x = 32767 THEN 128 ELSE msg[x - 16384 + 1]]

\* main(): unlock, load, lock, reset.
LoadHello ==
    /\ phase = "new"
    /\ \E msg \in HelloMessages :
          /\ bytes' = msg
          /\ Install(reset_cpu([Machine EXCEPT !.rom = HelloImage(msg),
                                               !.locked = TRUE]))
    /\ phase' = "running"
    /\ UNCHANGED <<overflow_checks, steps, histVars, emu, arr, decoded>>

\* The driver loop: while is_running() { advance() }
RunHello ==
    /\ phase = "running"
    /\ Bit(cpu.flags, HALT) = 0
    /\ cpu.pc \in DOMAIN HelloProgram
    /\ \E inb \in {65, 10, 255} : advance_cpu(HelloProgram[cpu.pc], inb)
    /\ UNCHANGED phase

NextHello == LoadHello \/ RunHello

SpecHello == Init /\ [][NextHello]_vars

(***************************************************************************)
(* SpecMap: loads, stores and stack instructions of the CPU draft on       *)
(* addresses across the memory map.                                        *)
(***************************************************************************)
\* The ends of RAM (0x0000, 0x2FFF), the first address after it (0x3000),
\* the read window of the MMU (0x4000), the port (0x7F00) and the
\* cartridge (0x8000, 0x9000, 0xFFFE).
MapAddresses == {0, 12287, 12288, 16384, 32512, 32768, 36864, 65534}

\* The cartridge image: one byte at 0x9000 and the reset vector 0x8000.
MapImage == (4096 :> 7) @@ (32767 :> 128)

\* main() has loaded the cartridge and locked it or left it unlocked; the
\* program has set A and the stack pointer.
SetupMap ==
    /\ phase = "new"
    /\ \E a \in {4660, 65535}, sp \in {8191, 36864}, l \in BOOLEAN :
          /\ cpu' = [cpu EXCEPT !.a = a, !.sp = sp, !.pc = 32768]
          /\ locked' = l
    /\ rom' = MapImage
    /\ phase' = "ready"
    /\ UNCHANGED <<ram, stdout, crashed, overflow_checks, steps, histVars,
                   otherDrafts>>

MapInstructions ==
    {Ins(op, "-", "-", addr, 0) :
        op \in {"LoadAddressAbsolute", "LoadWordAbsolute",
                "StoreAddressAbsolute", "StoreWordAbsolute"},
        addr \in MapAddresses}
    \cup {Ins(op, "a", "-", 0, 0) : op \in {"PushRegister", "PopRegister"}}
    \cup {Ins("Call", "-", "-", 36864, 0)}

\* One instruction; the run stops after MaxSteps instructions.
AdvanceMap ==
    /\ phase = "ready"
    /\ steps < MaxSteps
    /\ \E i \in MapInstructions : advance_cpu(i, 65)
    /\ UNCHANGED phase

NextMap == SetupMap \/ AdvanceMap

SpecMap == Init /\ [][NextMap]_vars

(***************************************************************************)
(* SpecPair: register pairs written by the assembler                       *)
(* (src/src/compile/mod.rs) and read by Register::pair_from.               *)
(***************************************************************************)
\* str::to_uppercase on the operand strings of the model
to_uppercase(string) ==
    CASE string = "a" -> "A" [] string = "sp" -> "SP" [] string = "Flags" -> "FLAGS"
      [] OTHER -> string

\* parse_register: Register as u8, or InvalidRegister
parse_register(string) ==
    LET u == to_uppercase(string)
    IN  CASE u = "A" -> [ok |-> TRUE, val |-> 0]
          [] u = "B" -> [ok |-> TRUE, val |-> 1]
          [] u = "C" -> [ok |-> TRUE, val |-> 2]
          [] u = "D" -> [ok |-> TRUE, val |-> 3]
          [] u = "SP" -> [ok |-> TRUE, val |-> 5]
          [] u = "PC" -> [ok |-> TRUE, val |-> 6]
          [] u = "FLAGS" -> [ok |-> TRUE, val |-> 7]
          [] OTHER -> [ok |-> FALSE, val |-> 0]

\* parse_register_pair: parse_register(string1)? << 4 | parse_register(string2)?
parse_register_pair(string1, string2) ==
    LET r1 == parse_register(string1)
        r2 == parse_register(string2)
    IN  IF r1.ok /\ r2.ok
        THEN [ok |-> TRUE, val |-> BitOrN((r1.val * 16) % W8, r2.val, 8)]
        ELSE [ok |-> FALSE, val |-> 0]

\* Operand strings: the seven registers, some in lower or mixed case, and
\* two strings that name no register.
RegisterStrings ==
    {"A", "B", "C", "D", "SP", "PC", "FLAGS", "a", "sp", "Flags", "E", "R4"}

\* The assembler emits the pair byte of a "dst, src" operand.
EmitPair ==
    /\ phase = "new"
    /\ \E string1 \in RegisterStrings, string2 \in RegisterStrings :
          LET r == parse_register_pair(string1, string2)
          IN  /\ arr' = <<string1, string2>>
              /\ bytes' = IF r.ok THEN <<r.val>> ELSE <<>>
              /\ phase' = IF r.ok THEN "emitted" ELSE "rejected"
    /\ UNCHANGED <<cpuVars, crashed, overflow_checks, steps, histVars, emu,
                   decoded>>

\* The emulator decodes the emitted byte.
DecodePair ==
    /\ phase = "emitted"
    /\ decoded' = pair_from(bytes[1])
    /\ phase' = "decoded"
    /\ UNCHANGED <<cpuVars, crashed, overflow_checks, steps, histVars, emu,
                   arr, bytes>>

\* The emulator decodes any byte of a program.
DecodeByte ==
    /\ phase = "new"
    /\ \E b \in U8 :
          /\ bytes' = <<b>>
          /\ decoded' = pair_from(b)
    /\ phase' = "raw"
    /\ UNCHANGED <<cpuVars, crashed, overflow_checks, steps, histVars, emu,
                   arr>>

NextPair == EmitPair \/ DecodePair \/ DecodeByte

SpecPair == Init /\ [][NextPair]_vars

(***************************************************************************)
(* SpecAsm: the assembler of src/src/compile/mod.rs on short sources.      *)
(* A source line is kept as its tokens: the label it binds ("-" for none)  *)
(* and its body, a directive or an instruction already matched to a row of *)
(* the instruction table; an operand is a literal or a symbol.             *)
(***************************************************************************)
\* Number of lines of a source.
MaxLines == 3

START_ADDRESS == 32768

Literal(x) == [sym |-> "-", lit |-> x]
Symbol(s) == [sym |-> s, lit |-> 0]

\* u64::to_le_bytes()[..len]
to_le_bytes(value, len) == [k \in 1 .. len |-> (value \div (256 ^ (k - 1))) % 256]

\* The assembler's state: the output cursor (data, len, pos), the symbol
\* table, the patch list, and the labels bound so far with their offsets.
NewAssembly ==
    [data |-> EmptyMem, len |-> 0, pos |-> 0, symbols |-> [s \in {} |-> 0],
     errata |-> <<>>, binds |-> <<>>, err |-> "-", line |-> -1]

\* Cursor<Vec<u8>>::write_all: the bytes go at the cursor, the vector grows
\* (zero-filled) when the cursor is beyond its end
RECURSIVE write_all(_, _)
write_all(st, buf) ==
    IF buf = <<>> THEN st
    ELSE write_all([st EXCEPT !.data = Poke(@, st.pos, Head(buf)),
                              !.pos = @ + 1,
                              !.len = IF st.pos + 1 > @ THEN st.pos + 1 ELSE @],
                   Tail(buf))

\* HashMap::insert
insert(symbols, sym, value) ==
    [s \in DOMAIN symbols \cup {sym} |-> IF s = sym THEN value ELSE symbols[s]]

Fail(st, err, line) == [st EXCEPT !.err = err, !.line = line]

\* parse_instruction on a matched row: the opcode, then per operand its
\* bytes; a symbol leaves zero bytes and a record (offset in the
\* instruction, symbol, width).  Address and Word are two bytes wide,
\* Offset is one.
OperandWidth(type) == IF type = "Offset" THEN 1 ELSE 2

parse_instruction(body) ==
    IF body.kind = "empty" THEN [bytes |-> <<>>, symbols |-> <<>>]
    ELSE LET w == OperandWidth(body.type)
         IN  IF body.type = "None"
             THEN [bytes |-> <<body.opcode>>, symbols |-> <<>>]
             ELSE IF body.val.sym = "-"
             THEN [bytes |-> <<body.opcode>> \o to_le_bytes(body.val.lit, w),
                   symbols |-> <<>>]
             ELSE [bytes |-> <<body.opcode>> \o [k \in 1 .. w |-> 0],
                   symbols |-> <<[pos |-> 1, sym |-> body.val.sym, len |-> w]>>]

\* parse_directive: def, db, dw and org
parse_directive(st, body, line_no) ==
    LET known == body.val.sym = "-" \/ body.val.sym \in DOMAIN st.symbols
        value == IF body.val.sym = "-" THEN body.val.lit
                 ELSE st.symbols[body.val.sym]
        w == IF body.kind = "db" THEN 1 ELSE 2
    IN  CASE body.kind = "def" ->
               IF known
               THEN [st EXCEPT !.symbols = insert(@, body.sym, value)]
               ELSE Fail(st, "DirectiveError(UndefinedSymbol)", line_no)
          [] body.kind \in {"db", "dw"} ->
               IF body.val.sym = "-"
               THEN write_all(st, to_le_bytes(body.val.lit, w))
               ELSE write_all([st EXCEPT !.errata =
                                  Append(@, [pos |-> st.pos, sym |-> body.val.sym,
                                             len |-> w])],
                              [k \in 1 .. w |-> 0])
          [] body.kind = "org" ->
               IF known
               THEN [st EXCEPT !.pos = value - START_ADDRESS]
               ELSE Fail(st, "DirectiveError(UndefinedSymbol)", line_no)

\* A loop body that records the patches of an instruction at their offset
\* in the instruction, not in the output.
compile_line_PatchInInstruction(st, line, line_no) ==
    LET s1 == IF line.label = "-" THEN st
              ELSE [st EXCEPT
                      !.symbols = insert(@, line.label, START_ADDRESS + st.pos),
                      !.binds = Append(@, [sym |-> line.label, at |-> st.pos])]
        em == parse_instruction(line.body)
    IN  IF line.body.kind \in {"def", "db", "dw", "org"}
        THEN parse_directive(s1, line.body, line_no)
        ELSE write_all([s1 EXCEPT !.errata = @ \o em.symbols], em.bytes)

\* The body of the loop over the lines of compile: peel the label, then the
\* directive or the instruction.
compile_line(st, line, line_no) ==
    LET s1 == IF line.label = "-" THEN st
              ELSE [st EXCEPT
                      !.symbols = insert(@, line.label, START_ADDRESS + st.pos),
                      !.binds = Append(@, [sym |-> line.label, at |-> st.pos])]
        em == parse_instruction(line.body)
        missing == [k \in DOMAIN em.symbols |->
                       [em.symbols[k] EXCEPT !.pos = @ + s1.pos]]
    IN  IF line.body.kind \in {"def", "db", "dw", "org"}
        THEN parse_directive(s1, line.body, line_no)
        ELSE write_all([s1 EXCEPT !.errata = @ \o missing], em.bytes)

RECURSIVE scan(_, _, _)
scan(st, source, line_no) ==
    IF source = <<>> \/ st.err # "-" THEN st
    ELSE scan(compile_line(st, Head(source), line_no), Tail(source), line_no + 1)

\* A back-patch loop that writes zero for a symbol nobody bound.
RECURSIVE backpatch_ZeroForUnbound(_, _)
backpatch_ZeroForUnbound(st, errata) ==
    IF errata = <<>> \/ st.err # "-" THEN st
    ELSE LET e == Head(errata)
             v == IF e.sym \in DOMAIN st.symbols THEN st.symbols[e.sym] ELSE 0
         IN  backpatch_ZeroForUnbound(
                 write_all([st EXCEPT !.pos = e.pos], to_le_bytes(v, e.len)),
                 Tail(errata))

\* The back-patch loop of compile.  Its range test reads bytes[len..] of the
\* slice already cut to bytes[..len], which is empty: SymbolOutOfRange is
\* never returned.
RECURSIVE backpatch(_, _)
backpatch(st, errata) ==
    IF errata = <<>> \/ st.err # "-" THEN st
    ELSE LET e == Head(errata)
         IN  IF e.sym \notin DOMAIN st.symbols
             THEN Fail(st, "UndefinedSymbol", -1)
             ELSE backpatch(write_all([st EXCEPT !.pos = e.pos],
                                      to_le_bytes(st.symbols[e.sym], e.len)),
                            Tail(errata))

\* compile: Ok(binary) or Err((line, error))
compile(source) ==
    LET scanned == scan(NewAssembly, source, 0)
    IN  IF scanned.err # "-" THEN scanned
        ELSE backpatch(scanned, scanned.errata)

\* Bodies of a line: nothing, an instruction without operand, instructions
\* with an address, offset or word operand naming a symbol or a literal,
\* and directives.
AsmBodies ==
    {[kind |-> "empty"], [kind |-> "ins", opcode |-> 1, type |-> "None"]}
    \cup {[kind |-> "ins", opcode |-> 41, type |-> "Address", val |-> v] :
             v \in {Symbol("L"), Symbol("M"), Literal(4660)}}
    \cup {[kind |-> "ins", opcode |-> 40, type |-> "Offset", val |-> v] :
             v \in {Symbol("L"), Symbol("M")}}
    \cup {[kind |-> "def", sym |-> "M", val |-> v] :
             v \in {Literal(5), Literal(300), Symbol("L")}}
    \cup {[kind |-> "db", val |-> Symbol("M")],
          [kind |-> "org", val |-> Literal(65535)],
          [kind |-> "org", val |-> Literal(32768)]}

AsmLines == {[label |-> l, body |-> b] : l \in {"-", "L"}, b \in AsmBodies}

\* compile on a source of at most MaxLines lines
Compile ==
    /\ phase = "new"
    /\ \E n \in 0 .. MaxLines : \E source \in [1 .. n -> AsmLines] :
          /\ arr' = source
          /\ decoded' = compile(source)
    /\ phase' = "compiled"
    /\ UNCHANGED <<cpuVars, crashed, overflow_checks, steps, histVars, emu,
                   bytes>>

NextAsm == Compile

SpecAsm == Init /\ [][NextAsm]_vars

(***************************************************************************)
(* SpecInt: the host raises interrupts on the Emu draft between steps.     *)
(***************************************************************************)
\* Calls of interrupt() in one run.
MaxCalls == 2

\* Emulator::interrupt
Emu_interrupt(e, port) ==
    LET w == Array_write_word(e.memory, MEM_SIZE, 65532, port)
    IN  [e EXCEPT !.memory = w.mem,
                  !.flags = BitOrN(@, Pow2(INTERRUPT), 16)]

\* Emulator::handle_interrupt_return
Emu_handle_interrupt_return(e) ==
    LET word(k) == Mem_read_word(e.memory, MEM_SIZE, wrapping_add(e.sp, 2 * k)).val
    IN  [e EXCEPT !.d = word(0), !.c = word(1), !.b = word(2), !.a = word(3),
                  !.flags = BitAndN(word(4), BitNot16(Pow2(INTERRUPT)), 16),
                  !.pc = word(5), !.sp = wrapping_add(@, 12)]

\* Whether this call of advance reaches handle_interrupt.
Emu_dispatches(e, inb) ==
    LET d == Emu_next_instruction(e)
        e2 == Isa_execute([e EXCEPT !.pc = wrapping_add(@, d.count)], d.ins, inb)
    IN  d.ok /\ ~e2.crashed /\ Emu_flag(e2, INTERRUPT)

\* The image: increments of A at 0x0000, the handler (increments of B) at
\* 0x0100, and the vector 0x0100 at 0xFFFE.
IntImage ==
    (0 :> 40) @@ (1 :> 40) @@ (2 :> 40) @@ (3 :> 40)
    @@ (256 :> 41) @@ (257 :> 41) @@ (258 :> 41) @@ (259 :> 41)
    @@ (65535 :> 1)

IntStacks == {61440, 4096}

SetupInt ==
    /\ phase = "new"
    /\ \E sp \in IntStacks, a \in {0, 65535} :
          emu' = [NewEmulator EXCEPT !.memory = IntImage, !.sp = sp, !.a = a]
    /\ decoded' = [calls |-> 0, dispatches |-> 0, returns |-> 0]
    /\ phase' = "ready"
    /\ UNCHANGED <<cpuVars, arr, bytes, crashed, overflow_checks, steps,
                   histVars>>

\* The host calls interrupt(port).
Interrupt ==
    /\ phase = "ready"
    /\ decoded.calls < MaxCalls
    /\ \E port \in {1, 300} : emu' = Emu_interrupt(emu, port)
    /\ decoded' = [decoded EXCEPT !.calls = @ + 1]
    /\ UNCHANGED <<cpuVars, arr, bytes, crashed, overflow_checks, steps, phase,
                   histVars>>

\* The host calls advance().
AdvanceInt ==
    /\ phase = "ready"
    /\ steps < MaxSteps + 1
    /\ ~emu.crashed
    /\ emu' = Emu_advance(emu, 65)
    /\ decoded' = [decoded EXCEPT
                     !.dispatches = IF Emu_dispatches(emu, 65) THEN @ + 1 ELSE @]
    /\ steps' = steps + 1
    /\ UNCHANGED <<cpuVars, arr, bytes, crashed, overflow_checks, phase,
                   histVars>>

\* The host calls handle_interrupt_return(), once per run at most.
ReturnInt ==
    /\ phase = "ready"
    /\ decoded.returns < 1
    /\ emu' = Emu_handle_interrupt_return(emu)
    /\ decoded' = [decoded EXCEPT !.returns = @ + 1]
    /\ UNCHANGED <<cpuVars, arr, bytes, crashed, overflow_checks, steps, phase,
                   histVars>>

NextInt == SetupInt \/ Interrupt \/ AdvanceInt \/ ReturnInt

SpecInt == Init /\ [][NextInt]_vars

(***************************************************************************)
(* SpecLoop: one LOOP instruction of the Emu draft.                        *)
(***************************************************************************)
LoopOps == {"Loop", "LoopOffset", "LoopRelative"}

\* Counter values: the wrap, the fall-through, and values that branch.
LoopCounters == {0, 1, 2, 65535}

LoopWords == {0, 2, 4660, 65534}

\* Flag words without a pending interrupt.
LoopFlagWords == {0, 4, 12, 65471}

\* The host places one LOOP instruction at pc and sets the registers.
SetupLoop ==
    /\ phase = "new"
    /\ \E op \in LoopOps, w \in LoopWords, origin \in {0, 256, MEM_SIZE - 3},
          c \in LoopCounters, b \in BaseWords, f \in LoopFlagWords :
          LET i == Ins(op, "-", "-", w, 0)
              image == Mem_write_array(EmptyMem, MEM_SIZE, origin, Isa_encode(i))
          IN  /\ image.ok
              /\ emu' = [NewEmulator EXCEPT !.memory = image.mem, !.pc = origin,
                                            !.a = 7, !.b = b, !.c = c, !.d = 9,
                                            !.flags = f]
              /\ bytes' = Isa_encode(i)
              /\ last2' = i
    /\ phase' = "ready"
    /\ UNCHANGED <<cpuVars, arr, decoded, crashed, overflow_checks, steps,
                   prev, last, prev2>>

NextLoop == SetupLoop \/ AdvanceEmu

SpecLoop == Init /\ [][NextLoop]_vars

(***************************************************************************)
(* SpecChain: ChainedIO of src/utils/src/chained_io.rs over two fixed      *)
(* arrays, driven by seek, read and write with buffers of one or two       *)
(* bytes.                                                                  *)
(***************************************************************************)
\* The lengths of the two devices.
LenFirst == 2
LenSecond == 3

Min(x, y) == IF x < y THEN x ELSE y

\* Cursor<[u8; N]>: the array and the cursor's own position.
NewCursor(data) == [data |-> data, pos |-> 0]

\* Cursor::seek(SeekFrom::Start(p))
Cursor_seek(dev, p) == [dev EXCEPT !.pos = p]

\* Cursor::read: as many bytes as the buffer takes and the array still has
Cursor_read(dev, n) ==
    LET avail == IF dev.pos < Len(dev.data) THEN Len(dev.data) - dev.pos ELSE 0
        k == Min(n, avail)
    IN  [dev |-> [dev EXCEPT !.pos = @ + k],
         out |-> [j \in 1 .. k |-> dev.data[dev.pos + j]]]

\* Cursor::write: as many bytes of buf as the array still has room for
Cursor_write(dev, buf) ==
    LET avail == IF dev.pos < Len(dev.data) THEN Len(dev.data) - dev.pos ELSE 0
        k == Min(Len(buf), avail)
    IN  [dev |-> [dev EXCEPT !.pos = @ + k,
                             !.data = [j \in DOMAIN dev.data |->
                                         IF j > dev.pos /\ j <= dev.pos + k
                                         THEN buf[j - dev.pos] ELSE dev.data[j]]],
         n |-> k]

\* ChainedIO::new: the lengths are measured by seeking to the end
ChainedIO_new(first, second) ==
    [first |-> first, second |-> second,
     len_first |-> Len(first.data), len_second |-> Len(second.data), pos |-> 0]

\* ChainedIO::seek(SeekFrom::Start(p))
ChainedIO_seek(ch, p) == [ch EXCEPT !.pos = p]

\* A read that takes the second device at the chain's position, not at the
\* position less len_first.
Chain_read_SecondAtPos(ch, n) ==
    IF ch.pos >= ch.len_first + ch.len_second THEN [ch |-> ch, out |-> <<>>]
    ELSE IF ch.pos < ch.len_first
    THEN LET r == Cursor_read(Cursor_seek(ch.first, ch.pos), n)
         IN  [ch |-> [ch EXCEPT !.first = r.dev, !.pos = @ + Len(r.out)],
              out |-> r.out]
    ELSE LET r == Cursor_read(Cursor_seek(ch.second, ch.pos), n)
         IN  [ch |-> [ch EXCEPT !.second = r.dev, !.pos = @ + Len(r.out)],
              out |-> r.out]

\* impl Read for ChainedIO: read into a buffer of n bytes
Chain_read(ch, n) ==
    IF ch.pos >= ch.len_first + ch.len_second THEN [ch |-> ch, out |-> <<>>]
    ELSE IF ch.pos < ch.len_first
    THEN LET r == Cursor_read(Cursor_seek(ch.first, ch.pos), n)
             c1 == [ch EXCEPT !.first = r.dev, !.pos = @ + Len(r.out)]
             s == Cursor_read(Cursor_seek(ch.second, 0), n - Len(r.out))
         IN  IF Len(r.out) < n
             THEN [ch |-> [c1 EXCEPT !.second = s.dev, !.pos = @ + Len(s.out)],
                   out |-> r.out \o s.out]
             ELSE [ch |-> c1, out |-> r.out]
    ELSE LET r == Cursor_read(Cursor_seek(ch.second, ch.pos - ch.len_first), n)
         IN  [ch |-> [ch EXCEPT !.second = r.dev, !.pos = @ + Len(r.out)],
              out |-> r.out]

\* impl Write for ChainedIO: write of the buffer buf
Chain_write(ch, buf) ==
    IF ch.pos < ch.len_first
    THEN LET w == Cursor_write(Cursor_seek(ch.first, ch.pos), buf)
             c1 == [ch EXCEPT !.first = w.dev, !.pos = @ + w.n]
             s == Cursor_write(Cursor_seek(ch.second, 0),
                               SubSeq(buf, w.n + 1, Len(buf)))
         IN  IF w.n < Len(buf)
             THEN [ch |-> [c1 EXCEPT !.second = s.dev, !.pos = @ + s.n],
                   n |-> w.n + s.n]
             ELSE [ch |-> c1, n |-> w.n]
    ELSE LET w == Cursor_write(Cursor_seek(ch.second, ch.pos - ch.len_first), buf)
         IN  [ch |-> [ch EXCEPT !.second = w.dev, !.pos = @ + w.n], n |-> w.n]

\* Positions a caller seeks to: inside both devices, at the seam, at and
\* beyond the end.
ChainPositions == 0 .. LenFirst + LenSecond + 1

\* The host chains two arrays with known contents.
NewChain ==
    /\ phase = "new"
    /\ emu' = ChainedIO_new(NewCursor([j \in 1 .. LenFirst |-> 10 + j]),
                            NewCursor([j \in 1 .. LenSecond |-> 20 + j]))
    /\ decoded' = [op |-> "new", at |-> 0, n |-> 0, data |-> <<>>]
    /\ prev' = ChainedIO_new(NewCursor([j \in 1 .. LenFirst |-> 10 + j]),
                             NewCursor([j \in 1 .. LenSecond |-> 20 + j]))
    /\ phase' = "chained"
    /\ UNCHANGED <<cpuVars, arr, bytes, crashed, overflow_checks, steps,
                   last, prev2, last2>>

\* seek(SeekFrom::Start(p))
SeekChain ==
    /\ phase = "chained"
    /\ decoded.op # "seek"
    /\ \E p \in ChainPositions : emu' = ChainedIO_seek(emu, p)
    /\ decoded' = [op |-> "seek", at |-> emu.pos, n |-> 0, data |-> <<>>]
    /\ prev' = emu
    /\ UNCHANGED <<cpuVars, arr, bytes, crashed, overflow_checks, steps, phase,
                   last, prev2, last2>>

\* read(&mut buf) with a buffer of one or two bytes
ReadChain ==
    /\ phase = "chained"
    /\ steps < MaxSteps
    /\ \E n \in {1, 2} :
          /\ emu' = Chain_read(emu, n).ch
          /\ decoded' = [op |-> "read", at |-> emu.pos, n |-> n,
                         data |-> Chain_read(emu, n).out]
    /\ prev' = emu
    /\ steps' = steps + 1
    /\ UNCHANGED <<cpuVars, arr, bytes, crashed, overflow_checks, phase,
                   last, prev2, last2>>

\* write(&buf) with a buffer of one or two bytes
WriteChain ==
    /\ phase = "chained"
    /\ steps < MaxSteps
    /\ \E buf \in {<<77>>, <<88, 99>>} :
          /\ emu' = Chain_write(emu, buf).ch
          /\ decoded' = [op |-> "write", at |-> emu.pos, n |-> Len(buf),
                         data |-> SubSeq(buf, 1, Chain_write(emu, buf).n)]
    /\ prev' = emu
    /\ steps' = steps + 1
    /\ UNCHANGED <<cpuVars, arr, bytes, crashed, overflow_checks, phase,
                   last, prev2, last2>>

NextChain == NewChain \/ SeekChain \/ ReadChain \/ WriteChain

SpecChain == Init /\ [][NextChain]_vars

(***************************************************************************)
(* The assembler on the text of a line (src/src/compile/mod.rs).  A line   *)
(* is a sequence of one-character strings.  The lines of the model are     *)
(* written with upper-case mnemonics, decimal literals and no sign.        *)
(***************************************************************************)
Digits == {"0", "1", "2", "3", "4", "5", "6", "7", "8", "9"}
Letters ==
    {"A", "B", "C", "D", "E", "F", "G", "H", "I", "J", "K", "L", "M", "N", "O",
     "P", "Q", "R", "S", "T", "U", "V", "W", "X", "Y", "Z",
     "a", "b", "c", "d", "e", "f", "g", "h", "i", "j", "k", "l", "m", "n", "o",
     "p", "q", "r", "s", "t", "u", "v", "w", "x", "y", "z"}

DigitVal(c) ==
    CASE c = "0" -> 0 [] c = "1" -> 1 [] c = "2" -> 2 [] c = "3" -> 3
      [] c = "4" -> 4 [] c = "5" -> 5 [] c = "6" -> 6 [] c = "7" -> 7
      [] c = "8" -> 8 [] c = "9" -> 9

\* The characters of a text as one string.
RECURSIVE Join(_)
Join(text) == IF text = <<>> THEN "" ELSE Head(text) \o Join(Tail(text))

\* char::is_whitespace on the characters of the model
IsSpace(c) == c = " "

\* str::trim_start, str::trim_end, str::trim
RECURSIVE trim_start(_)
trim_start(text) ==
    IF text # <<>> /\ IsSpace(Head(text)) THEN trim_start(Tail(text)) ELSE text

RECURSIVE trim_end(_)
trim_end(text) ==
    IF text # <<>> /\ IsSpace(text[Len(text)])
    THEN trim_end(SubSeq(text, 1, Len(text) - 1))
    ELSE text

trim(text) == trim_end(trim_start(text))

\* str::split_once on the first character of the set stops
split_once(text, stops) ==
    LET hits == {k \in DOMAIN text : text[k] \in stops}
        first == CHOOSE k \in hits : \A j \in hits : k <= j
    IN  IF hits = {} THEN [some |-> FALSE, left |-> text, right |-> <<>>]
        ELSE [some |-> TRUE, left |-> SubSeq(text, 1, first - 1),
              right |-> SubSeq(text, first + 1, Len(text))]

\* str::split(ch): the pieces between the occurrences of ch
RECURSIVE split(_, _)
split(text, ch) ==
    LET s == split_once(text, {ch})
    IN  IF s.some THEN <<s.left>> \o split(s.right, ch) ELSE <<text>>

\* str::split_whitespace: the non-empty pieces between white space
split_whitespace(text) == SelectSeq(split(text, " "), LAMBDA piece : piece # <<>>)

\* from_str_radix(string, 10) of an unsigned decimal literal
RECURSIVE DecimalValue(_)
DecimalValue(text) ==
    IF text = <<>> THEN 0
    ELSE 10 * DecimalValue(SubSeq(text, 1, Len(text) - 1)) + DigitVal(text[Len(text)])

\* parse_integer::<U, I>: U::from_str_radix, or else I::from_str_radix cast
\* to U; for an unsigned decimal literal, a value up to max, the larger of
\* U::MAX and I::MAX
parse_integer(text, max) ==
    IF text # <<>> /\ (\A k \in DOMAIN text : text[k] \in Digits)
       /\ Len(text) <= 5 /\ DecimalValue(text) <= max
    THEN [ok |-> TRUE, val |-> DecimalValue(text)]
    ELSE [ok |-> FALSE, val |-> 0]

\* parse_symbol
parse_symbol(text) ==
    /\ \A k \in DOMAIN text :
          text[k] \in Letters \cup Digits \cup {"_", "-", ".", "+"}
    /\ ~parse_register(Join(text)).ok

\* Value::Literal, Value::Symbol, and the error of an operand parser
ValLiteral(x) == [ok |-> TRUE, sym |-> "-", lit |-> x, err |-> "-"]
ValSymbol(s) == [ok |-> TRUE, sym |-> s, lit |-> 0, err |-> "-"]
ValErr(e) == [ok |-> FALSE, sym |-> "-", lit |-> 0, err |-> e]

\* parse_or_symbol::<U, I>
parse_or_symbol(text, max) ==
    IF parse_integer(text, max).ok THEN ValLiteral(parse_integer(text, max).val)
    ELSE IF parse_symbol(text) THEN ValSymbol(Join(text))
    ELSE ValErr("InvalidNumber")

\* strip_prefix('#').or(strip_prefix(long))
StripImmediate(text, long) ==
    IF text # <<>> /\ Head(text) = "#" THEN [some |-> TRUE, rest |-> Tail(text)]
    ELSE IF Len(text) >= 2 /\ text[1] = long /\ text[2] = "#"
    THEN [some |-> TRUE, rest |-> SubSeq(text, 3, Len(text))]
    ELSE [some |-> FALSE, rest |-> text]

\* parse_immediate
parse_immediate(text) ==
    IF StripImmediate(text, "W").some
    THEN parse_or_symbol(StripImmediate(text, "W").rest, 65535)
    ELSE ValErr("InvalidImmediate")

\* parse_immediate8: does not accept symbols
parse_immediate8(text) ==
    LET s == StripImmediate(text, "B")
    IN  IF ~s.some THEN ValErr("InvalidImmediate")
        ELSE IF parse_integer(s.rest, 255).ok
        THEN ValLiteral(parse_integer(s.rest, 255).val)
        ELSE ValErr("InvalidNumber")

\* parse_address
parse_address(text) == parse_or_symbol(text, 65535)

\* parse_offset: parse_or_symbol::<i8, u8>
parse_offset(text) == parse_or_symbol(text, 255)

\* The error kept while the rows are tried: bytes.len() at the failure, the
\* error, and (for the properties only) the number of the operand that
\* failed.
KeptError(depth, err, at) == [depth |-> depth, err |-> err, at |-> at]

\* if last_err.0 < bytes.len() { last_err = (bytes.len(), e) }
Deeper(last_err, buf, err, at) ==
    IF last_err.depth < Len(buf) THEN KeptError(Len(buf), err, at) ELSE last_err

NoMatch(last_err) ==
    [ok |-> FALSE, bytes |-> <<>>, symbols |-> <<>>, last_err |-> last_err]

\* The 'inner loop of parse_instruction and the test for a leftover operand:
\* one row's schema against the operands; n counts the operands consumed.
RECURSIVE match_operands(_, _, _, _, _, _)
match_operands(schema, ops, buf, symbols, last_err, n) ==
    IF schema = <<>>
    THEN IF ops # <<>>
         THEN NoMatch(Deeper(last_err, buf, "ExtraOperand", n + 1))
         ELSE [ok |-> TRUE, bytes |-> buf, symbols |-> symbols,
               last_err |-> last_err]
    ELSE LET optype == Head(schema)
             rest == Tail(schema)
             op == Head(ops)
             value(v, width) ==
                 IF ~v.ok THEN NoMatch(Deeper(last_err, buf, v.err, n + 1))
                 ELSE IF v.sym # "-"
                 THEN match_operands(rest, Tail(ops),
                                     buf \o [k \in 1 .. width |-> 0],
                                     Append(symbols, [pos |-> Len(buf),
                                                      sym |-> v.sym, len |-> width]),
                                     last_err, n + 1)
                 ELSE match_operands(rest, Tail(ops),
                                     buf \o to_le_bytes(v.lit, width),
                                     symbols, last_err, n + 1)
         IN  IF optype.t = "Hidden"
             THEN match_operands(rest, ops, Append(buf, optype.val), symbols,
                                 last_err, n)
             ELSE IF ops = <<>> THEN NoMatch(last_err)
             ELSE CASE optype.t = "Address" -> value(parse_address(op), 2)
                    [] optype.t = "Offset" -> value(parse_offset(op), 1)
                    [] optype.t = "Byte" -> value(parse_immediate8(op), 1)
                    [] optype.t = "Word" -> value(parse_immediate(op), 2)
                    [] optype.t = "Register" ->
                          IF parse_register(Join(op)).ok
                          THEN match_operands(rest, Tail(ops),
                                   Append(buf, parse_register(Join(op)).val),
                                   symbols, last_err, n + 1)
                          ELSE NoMatch(Deeper(last_err, buf, "InvalidRegister",
                                              n + 1))
                    [] optype.t = "RegisterPair" ->
                          IF Tail(ops) = <<>>
                          THEN NoMatch(Deeper(last_err, buf, "MissingOperand",
                                              n + 2))
                          ELSE LET p == parse_register_pair(Join(op), Join(ops[2]))
                               IN  IF p.ok
                                   THEN match_operands(rest, Tail(Tail(ops)),
                                            Append(buf, p.val), symbols,
                                            last_err, n + 2)
                                   ELSE NoMatch(Deeper(last_err, buf,
                                            "InvalidRegister",
                                            IF parse_register(Join(op)).ok
                                            THEN n + 2 ELSE n + 1))
                    [] optype.t = "Const" ->
                          IF Join(op) # optype.text
                          THEN NoMatch(Deeper(last_err, buf, "InvalidConstant",
                                              n + 1))
                          ELSE match_operands(rest, Tail(ops), buf, symbols,
                                              last_err, n + 1)

\* The result of parse_instruction
Emission(buf, symbols) ==
    [ok |-> TRUE, bytes |-> buf, symbols |-> symbols, err |-> "-", at |-> 0]
InstructionError(e) ==
    [ok |-> FALSE, bytes |-> <<>>, symbols |-> <<>>, err |-> e.err, at |-> e.at]

\* A search of the table that returns the last row that matches.
RECURSIVE match_instruction_LastWins(_, _, _, _)
match_instruction_LastWins(table, mnem, ops, last_err) ==
    IF table = <<>> THEN InstructionError(last_err)
    ELSE LET row == table[Len(table)]
             front == SubSeq(table, 1, Len(table) - 1)
             m == match_operands(row.schema, ops, <<row.opcode>>, <<>>, last_err, 0)
         IN  IF row.mnem # mnem
             THEN match_instruction_LastWins(front, mnem, ops, last_err)
             ELSE IF m.ok THEN Emission(m.bytes, m.symbols)
             ELSE match_instruction_LastWins(front, mnem, ops, m.last_err)

\* The 'outer loop of parse_instruction: the rows in table order
RECURSIVE match_instruction(_, _, _, _)
match_instruction(table, mnem, ops, last_err) ==
    IF table = <<>> THEN InstructionError(last_err)
    ELSE LET row == Head(table)
             m == match_operands(row.schema, ops, <<row.opcode>>, <<>>, last_err, 0)
         IN  IF row.mnem # mnem
             THEN match_instruction(Tail(table), mnem, ops, last_err)
             ELSE IF m.ok THEN Emission(m.bytes, m.symbols)
             ELSE match_instruction(Tail(table), mnem, ops, m.last_err)

\* The operands of a line: the text before ';', split at ',', trimmed, the
\* empty pieces dropped
Operands(text) ==
    LET body == split_once(text, {";"}).left
        pieces == split(body, ",")
    IN  SelectSeq([k \in DOMAIN pieces |-> trim(pieces[k])],
                  LAMBDA piece : piece # <<>>)

\* parse_instruction on the text of a line, with the table of the build
parse_instruction_line(table, line) ==
    LET text == trim_start(line)
        s == split_once(text, {" "})
        mnem == to_uppercase(Join(s.left))
    IN  IF text = <<>> \/ Head(text) = ";" THEN Emission(<<>>, <<>>)
        ELSE match_instruction(table, mnem, Operands(s.right),
                               KeptError(0, "InvalidMnemonic", 0))

(***************************************************************************)
(* SpecParse: parse_instruction on one line against a table of the shape   *)
(* build.rs generates.  The table of the build (instructions.tsv) is not   *)
(* among the sources; the rows below stand for it.                         *)
(***************************************************************************)
Row(opcode, mnem, schema) == [opcode |-> opcode, mnem |-> mnem, schema |-> schema]
Op(t) == [t |-> t]
Const(text) == [t |-> "Const", text |-> text]
Hidden(val) == [t |-> "Hidden", val |-> val]

\* const INSTRUCTIONS: rows with a shared mnemonic, a literal operand, a
\* register pair (two register columns collapsed by build.rs) and a hidden
\* condition byte.
INSTRUCTIONS ==
    << Row(1, "NOP", <<>>),
       Row(40, "JMP", <<Op("Offset")>>),
       Row(41, "JMP", <<Op("Address")>>),
       Row(48, "ST", <<Op("Address"), Op("Register")>>),
       Row(49, "ST", <<Op("RegisterPair")>>),
       Row(50, "LD", <<Const("A"), Op("Address")>>),
       Row(51, "LD", <<Op("Register"), Op("Byte")>>),
       Row(60, "JZ", <<Hidden(0), Op("Address")>>) >>

\* The same rows with the order of the JMP rows and of the ST rows exchanged.
INSTRUCTIONS_Reordered ==
    << INSTRUCTIONS[1], INSTRUCTIONS[3], INSTRUCTIONS[2], INSTRUCTIONS[5],
       INSTRUCTIONS[4], INSTRUCTIONS[7], INSTRUCTIONS[6], INSTRUCTIONS[8] >>

Tables == {INSTRUCTIONS, INSTRUCTIONS_Reordered}

\* Mnemonics of the lines: those of the table and one it does not have.
LineMnemonics ==
    {<<"N", "O", "P">>,
     <<"J", "M", "P">>,
     <<"S", "T">>,
     <<"L", "D">>,
     <<"J", "Z">>,
     <<"X", "X">>}

\* Operand texts: registers, literals in and out of the range of a byte, a
\* symbol, an immediate, and a text no parser accepts.
OperandTexts ==
    {<<"A">>, <<"B">>, <<"5">>, <<"3", "0", "0">>, <<"L">>, <<"#", "5">>, <<"!">>}

\* At most two operands on a line.
OperandLists ==
    {<<>>} \cup {<<x>> : x \in OperandTexts}
           \cup {<<x, y>> : x \in OperandTexts, y \in OperandTexts}

Comments == {<<>>, <<" ", ";", " ", "x", ",", " ", "y">>}

\* The text of a line: the mnemonic, the operands separated by ", ", the
\* comment.
LineText(mnem, ops, comment) ==
    mnem
    \o (IF ops = <<>> THEN <<>> ELSE <<" ">> \o ops[1])
    \o (IF Len(ops) = 2 THEN <<",", " ">> \o ops[2] ELSE <<>>)
    \o comment

\* parse_instruction(&line)
ParseLine ==
    /\ phase = "new"
    /\ \E table \in Tables, mnem \in LineMnemonics, ops \in OperandLists,
          comment \in Comments :
          /\ arr' = [table |-> table, mnem |-> Join(mnem), ops |-> ops]
          /\ bytes' = LineText(mnem, ops, comment)
          /\ decoded' = parse_instruction_line(table, LineText(mnem, ops, comment))
    /\ phase' = "parsed"
    /\ UNCHANGED <<cpuVars, emu, crashed, overflow_checks, steps, histVars>>

NextParse == ParseLine

SpecParse == Init /\ [][NextParse]_vars

(***************************************************************************)
(* SpecLine: compile on a one-line source given as text, with and without  *)
(* a comment.                                                              *)
(***************************************************************************)
\* parse_label: the text before and after the first ':' of the line
parse_label(line) == split_once(trim_start(line), {":"})

\* while let Some((label, rest)) = parse_label(&line): every label binds
\* the output cursor
RECURSIVE peel_labels(_, _)
peel_labels(st, line) ==
    LET p == parse_label(line)
    IN  IF ~p.some THEN [st |-> st, line |-> line]
        ELSE peel_labels(
                 [st EXCEPT
                    !.symbols = insert(@, Join(p.left), START_ADDRESS + st.pos),
                    !.binds = Append(@, [sym |-> Join(p.left), at |-> st.pos])],
                 p.right)

\* The loop of "db" and "dw" over the operands
RECURSIVE write_values(_, _, _, _)
write_values(st, operands, width, line_no) ==
    IF operands = <<>> THEN st
    ELSE LET v == parse_or_symbol(Head(operands),
                                  IF width = 1 THEN 255 ELSE 65535)
         IN  IF ~v.ok THEN Fail(st, "DirectiveError(InvalidNumber)", line_no)
             ELSE IF v.sym = "-"
             THEN write_values(write_all(st, to_le_bytes(v.lit, width)),
                               Tail(operands), width, line_no)
             ELSE write_values(
                      write_all([st EXCEPT !.errata =
                                    Append(@, [pos |-> st.pos, sym |-> v.sym,
                                               len |-> width])],
                                [k \in 1 .. width |-> 0]),
                      Tail(operands), width, line_no)

\* parse_directive on the text after the directive's name.  The lines of
\* the model have no quoted string, so that "ascii" finds none.
parse_directive_text(st, directive, line, line_no) ==
    LET operands == split_whitespace(line)
        v == parse_or_symbol(IF directive = "def" THEN operands[2] ELSE trim(line),
                             65535)
        known == v.sym = "-" \/ v.sym \in DOMAIN st.symbols
        value == IF v.sym = "-" THEN v.lit ELSE st.symbols[v.sym]
    IN  CASE directive = "def" ->
               IF Len(operands) < 2
               THEN Fail(st, "DirectiveError(MissingOperand)", line_no)
               ELSE IF Len(operands) > 2
               THEN Fail(st, "DirectiveError(ExtraOperand)", line_no)
               ELSE IF ~v.ok THEN Fail(st, "DirectiveError(InvalidNumber)", line_no)
               ELSE IF ~known
               THEN Fail(st, "DirectiveError(UndefinedSymbol)", line_no)
               ELSE [st EXCEPT !.symbols = insert(@, Join(operands[1]), value)]
          [] directive = "db" -> write_values(st, operands, 1, line_no)
          [] directive = "dw" -> write_values(st, operands, 2, line_no)
          [] directive = "org" ->
               IF ~v.ok THEN Fail(st, "DirectiveError(InvalidNumber)", line_no)
               ELSE IF ~known
               THEN Fail(st, "DirectiveError(UndefinedSymbol)", line_no)
               ELSE [st EXCEPT !.pos = value - START_ADDRESS]
          [] directive = "ascii" ->
               Fail(st, "DirectiveError(ExpectedString)", line_no)
          [] OTHER -> Fail(st, "DirectiveError(UnknownDirective)", line_no)

\* The body of the loop over the lines of compile, on the text of a line
compile_text_line(st, text, line_no) ==
    LET peeled == peel_labels(st, text)
        s1 == peeled.st
        line == trim_start(peeled.line)
        d == split_once(Tail(line), {" "})
        em == parse_instruction_line(INSTRUCTIONS, line)
        missing == [k \in DOMAIN em.symbols |->
                       [em.symbols[k] EXCEPT !.pos = @ + s1.pos]]
    IN  IF line # <<>> /\ Head(line) = "."
        THEN parse_directive_text(s1, Join(d.left), d.right, line_no)
        ELSE IF ~em.ok
        THEN Fail(s1, "InstructionError(" \o em.err \o ")", line_no)
        ELSE write_all([s1 EXCEPT !.errata = @ \o missing], em.bytes)

\* compile on a source of one line
compile_text(text) ==
    LET scanned == compile_text_line(NewAssembly, text, 0)
    IN  IF scanned.err # "-" THEN scanned
        ELSE backpatch(scanned, scanned.errata)

\* The parts of a line: labels (one of them a register name in either
\* case), bodies, comments.
LineLabels ==
    {<<>>,
     <<"L", ":", " ">>,
     <<"A", ":", " ">>,
     <<"a", ":", " ">>}
LineBodies ==
    {<<>>,
     <<"N", "O", "P">>,
     <<"J", "M", "P", " ", "5">>,
     <<"J", "M", "P", " ", "L">>,
     <<"L", "D", " ", "A", ",", " ", "5">>,
     <<".", "d", "e", "f", " ", "M", " ", "5">>,
     <<".", "d", "e", "f", " ", "A", " ", "5">>,
     <<".", "d", "e", "f", " ", "s", "p", " ", "5">>,
     <<".", "d", "b", " ", "5">>,
     <<".", "d", "b", " ", "M">>}
LineComments ==
    {<<>>,
     <<" ", ";", " ", "X">>,
     <<" ", ";", " ", "X", ":", " ", "Y">>,
     <<" ", ";", " ", "X", ",", " ", "Y">>}

\* compile of the line and of the same line followed by a comment
CompileText ==
    /\ phase = "new"
    /\ \E label \in LineLabels, body \in LineBodies, comment \in LineComments :
          /\ bytes' = label \o body \o comment
          /\ arr' = [comment |-> comment, plain |-> compile_text(label \o body)]
          /\ decoded' = compile_text(label \o body \o comment)
    /\ phase' = "assembled"
    /\ UNCHANGED <<cpuVars, emu, crashed, overflow_checks, steps, histVars>>

NextLine == CompileText

SpecLine == Init /\ [][NextLine]_vars

Spec == Init /\ [][Next]_vars

(***************************************************************************)
(* Claims on the CPU draft, checked under Spec.                            *)
(***************************************************************************)
Done == phase = "done"

\* the flag bit n of the machine after / before the last instruction
FlagNow(n) == Bit(cpu.flags, n) = 1
FlagBefore(n) == Bit(prev.cpu.flags, n) = 1

\* C3: ADD, SUB, INC and DEC leave the result modulo 2^16 and set CARRY iff
\* the unsigned operation carried or borrowed, OVERFLOW iff the exact signed
\* result is outside [-32768, 32767], ZERO iff the result is 0 and SIGN to
\* bit 15 of the result.
C3_ArithmeticFlags ==
    (Done /\ last.op \in {"Add", "Subtract", "Increment", "Decrement"}) =>
        LET onA == last.op \in {"Add", "Subtract"}
            adds == last.op \in {"Add", "Increment"}
            x == IF onA THEN prev.cpu.a ELSE prev.cpu[last.reg]
            y == IF onA THEN prev.cpu[last.reg] ELSE 1
            exact == IF adds THEN x + y ELSE x - y
            sx == IF x >= 32768 THEN x - 65536 ELSE x
            sy == IF y >= 32768 THEN y - 65536 ELSE y
            sexact == IF adds THEN sx + sy ELSE sx - sy
            res == IF onA THEN cpu.a ELSE cpu[last.reg]
        IN  /\ ~crashed
            /\ res = exact % 65536
            /\ FlagNow(CARRY) <=> (exact < 0 \/ exact > 65535)
            /\ FlagNow(OVERFLOW) <=> (sexact < -32768 \/ sexact > 32767)
            /\ FlagNow(ZERO) <=> (res = 0)
            /\ FlagNow(SIGN) <=> (res >= 32768)

\* 0x7FFF + 1 has given 0x8000 with SIGN and OVERFLOW set, CARRY and ZERO clear
C3_Witness ==
    /\ Done /\ last.op = "Add" /\ last.reg = "b"
    /\ prev.cpu.a = 32767 /\ prev.cpu.b = 1 /\ cpu.a = 32768
    /\ FlagNow(SIGN) /\ FlagNow(OVERFLOW) /\ ~FlagNow(CARRY) /\ ~FlagNow(ZERO)

\* the machine the last instruction was executed on: prev with pc advanced
Fetched == [prev EXCEPT !.cpu.pc = wrapping_add(@, byte_length(last))]

\* C7: the flags after CMP r are the flags after SUB r, the flags after TEST r
\* are the flags after AND r, and CMP / TEST (register or immediate) change
\* no register other than PC and FLAGS and no memory.
C7_CompareTestDiscard ==
    (Done /\ last.op \in {"Compare", "Test", "CompareImmediate", "TestImmediate"}) =>
        /\ ~crashed
        /\ last.op = "Compare" => cpu.flags = Cpu_Subtract(Fetched, last.reg).cpu.flags
        /\ last.op = "Test" => cpu.flags = Cpu_And(Fetched, last.reg).cpu.flags
        /\ \A r \in {"a", "b", "c", "d", "sp", "ir_flags"} : cpu[r] = prev.cpu[r]
        /\ ram = prev.ram /\ rom = prev.rom /\ stdout = prev.stdout

\* a CMP whose SUB would have changed the accumulator and set CARRY
C7_Witness ==
    /\ Done /\ last.op = "Compare" /\ last.reg = "b"
    /\ prev.cpu.a = 0 /\ prev.cpu.b = 1 /\ cpu.a = 0
    /\ FlagNow(CARRY) /\ FlagNow(SIGN) /\ ~FlagBefore(CARRY)

\* C8: no arithmetic, logical, shift, rotate, compare or test instruction
\* changes a FLAGS bit other than ZERO, SIGN, CARRY and OVERFLOW.
C8_OtherFlagsKept ==
    (Done /\ last.op \in AluRegOps \cup AluImmOps) =>
        \A n \in 0 .. 7 :
            n \notin {ZERO, SIGN, CARRY, OVERFLOW} => (FlagNow(n) <=> FlagBefore(n))

\* an ADD that changed all four arithmetic flags of a byte whose other bits,
\* HALT and ENABLE_INTERRUPT among them, are set
C8_Witness ==
    /\ Done /\ last.op = "Add" /\ prev.cpu.flags = 240
    /\ cpu.flags = 240 + 1 + 4
    /\ FlagNow(HALT) /\ FlagNow(INTERRUPT)

\* C4: ADC leaves A = (A + r + CARRY_in) mod 2^16 and SBB leaves
\* A = (A - r - CARRY_in) mod 2^16, CARRY is set iff the unsigned operation
\* carried or borrowed, OVERFLOW iff the exact signed result is outside
\* [-32768, 32767], and the step never aborts.
C4_CarryChain ==
    (Done /\ last.op \in {"AddWithCarry", "SubtractWithBorrow"}) =>
        LET adds == last.op = "AddWithCarry"
            x == prev.cpu.a
            y == prev.cpu[last.reg]
            cin == Bit(prev.cpu.flags, CARRY)
            exact == IF adds THEN x + y + cin ELSE x - y - cin
            sx == IF x >= 32768 THEN x - 65536 ELSE x
            sy == IF y >= 32768 THEN y - 65536 ELSE y
            sexact == IF adds THEN sx + sy + cin ELSE sx - sy - cin
        IN  /\ ~crashed
            /\ cpu.a = exact % 65536
            /\ FlagNow(CARRY) <=> (exact < 0 \/ exact > 65535)
            /\ FlagNow(OVERFLOW) <=> (sexact < -32768 \/ sexact > 32767)

\* C6: SHL and SHR shift A by the named register's value modulo 16; for an
\* effective count k >= 1 CARRY is the last bit shifted out of A (bit 16-k
\* for SHL, bit k-1 for SHR); ZERO and SIGN reflect the shifted result.
C6_ShiftCarry ==
    (Done /\ last.op \in {"ShiftLeft", "ShiftRight"}) =>
        LET left == last.op = "ShiftLeft"
            x == prev.cpu.a
            k == prev.cpu[last.reg] % 16
            res == IF left THEN (x * Pow2(k)) % 65536 ELSE x \div Pow2(k)
            out == IF left THEN Bit(x, 16 - k) ELSE Bit(x, k - 1)
        IN  /\ ~crashed
            /\ cpu.a = res
            /\ k >= 1 => (FlagNow(CARRY) <=> (out = 1))
            /\ FlagNow(ZERO) <=> (res = 0)
            /\ FlagNow(SIGN) <=> (res >= 32768)

(***************************************************************************)
(* Claims on the stack of the CPU draft, checked under SpecRun.            *)
(***************************************************************************)
\* the word the machine reads at the stack pointer
WordAtSP == MMU_read_word(Machine, cpu.sp, 255)

\* C9: PUSH decrements SP by 2 (mod 2^16) and then writes x as a word at SP;
\* POP reads the word at SP and then increments SP by 2; after PUSH x
\* followed by POP y, y = x and SP has its value before the PUSH.
C9_StackDiscipline ==
    /\ last.op = "PushRegister" =>
          /\ ~crashed
          /\ cpu.sp = (prev.cpu.sp - 2) % 65536
          /\ WordAtSP = [ok |-> TRUE, val |-> prev.cpu[last.reg]]
    /\ last.op = "PopRegister" =>
          /\ ~crashed
          /\ cpu.sp = (prev.cpu.sp + 2) % 65536
          /\ MMU_read_word(prev, prev.cpu.sp, 255) = [ok |-> TRUE, val |-> cpu[last.reg]]
    /\ (last2.op = "PushRegister" /\ last.op = "PopRegister") =>
          /\ ~crashed
          /\ cpu[last.reg] = prev2.cpu[last2.reg]
          /\ cpu.sp = prev2.cpu.sp

\* a PUSH of A and a POP into B that did round-trip: the stack is in the
\* unlocked cartridge
C9_Witness ==
    /\ last2.op = "PushRegister" /\ last2.reg = "a"
    /\ last.op = "PopRegister" /\ last.reg = "b"
    /\ ~crashed /\ prev2.cpu.a = 32768 /\ prev2.cpu.b = 1
    /\ cpu.b = 32768 /\ cpu.sp = prev2.cpu.sp

(***************************************************************************)
(* Claims on the codec, checked under SpecIsa.                             *)
(***************************************************************************)
\* C1: for every instruction value i, decoding the bytes the encoder
\* produced for i yields exactly (i, n), where n is the number of bytes
\* produced and 1 <= n <= 3.
C1_RoundTrip ==
    phase = "done" =>
        /\ Len(bytes) \in 1 .. 3
        /\ decoded = DecodeOk(last, Len(bytes))

(***************************************************************************)
(* Claims on the Emu draft, checked under SpecEmu.                         *)
(***************************************************************************)
\* the step ended without dispatching an interrupt
NoDispatch == ~Emu_flag(emu, INTERRUPT)

\* C5: AND, OR, XOR and NOT leave CARRY and OVERFLOW as they were, and set
\* ZERO and SIGN from the result.
C5_LogicalKeepsCarry ==
    (phase = "done" /\ last2.op \in {"And", "Or", "Xor", "Not"}
                    /\ ~emu.crashed /\ NoDispatch) =>
        LET res == IF last2.op = "Not" THEN emu[last2.reg] ELSE emu.a
        IN  /\ Emu_flag(emu, CARRY) <=> Emu_flag(prev, CARRY)
            /\ Emu_flag(emu, OVERFLOW) <=> Emu_flag(prev, OVERFLOW)
            /\ Emu_flag(emu, ZERO) <=> (res = 0)
            /\ Emu_flag(emu, SIGN) <=> (res >= 32768)

(***************************************************************************)
(* Claims on the Memory trait, checked under SpecMem.                      *)
(***************************************************************************)
\* C10: write_word(a, v) stores the low byte of v at a and the high byte at
\* a + 1, and a following read_word(a) returns v.
C10_LittleEndianWord ==
    /\ (phase \in {"written", "done"}) =>
          /\ ~arr.crashed
          /\ Peek(arr.data, last.n) = last.val % 256
          /\ Peek(arr.data, last.n + 1) = last.val \div 256
    /\ phase = "done" => decoded = last.val

\* a word whose two bytes differ, stored through the slice and read back
C10_Witness ==
    /\ phase = "done" /\ arr.kind = "slice" /\ ~arr.crashed
    /\ last.val = 256 /\ last.n = 255 /\ decoded = 256
    /\ Peek(arr.data, 255) = 0 /\ Peek(arr.data, 256) = 1

(***************************************************************************)
(* Claims on the Main draft, checked under SpecMain.                       *)
(***************************************************************************)
MainBranchOps == {"Jump", "JumpRelative", "JumpIf", "JumpRelativeIf", "Loop",
                  "LoopRelative", "PopPC"}

\* what the decoder yields on the three bytes at address pc of memory m
InstructionAt(m, pc) ==
    Main_from_iter(<<Peek(m, pc), Peek(m, (pc + 1) % 65536), Peek(m, (pc + 2) % 65536)>>)

\* C2: a step decodes the instruction whose opcode byte is at address PC,
\* sets PC to (PC + encoded length) mod 2^16 and executes it; after a step of
\* a non-branch instruction PC is exactly that value.
C2_StepAtPC ==
    (phase = "ready" /\ steps >= 1) =>
        LET at == InstructionAt(prev.memory, prev.pc)
        IN  /\ decoded = at
            /\ at.ins.op \notin MainBranchOps =>
                  (~emu.crashed => emu.pc = (prev.pc + at.count) % 65536)

\* the first step of a run: PC is 0, the instruction at PC is decoded and
\* PC moves past its three bytes
C2_Witness ==
    /\ phase = "ready" /\ steps = 1 /\ prev.pc = 0
    /\ last = Ins("LoadImmediate", "a", "-", 32768, 0)
    /\ emu.a = 32768 /\ emu.pc = 3

(***************************************************************************)
(* Reset (SpecReset).                                                      *)
(***************************************************************************)
\* The reset vector of the CPU draft: the cartridge bytes behind 0xFFFE
VectorInRom == Peek(rom, 32766) + 256 * Peek(rom, 32767)

\* C11: after reset() A = B = C = D = 0, SP = 0x7F00, PC is the
\* little-endian word at 0xFFFE-0xFFFF, HALT is set if and only if that word
\* is zero, and every other flag is clear.
C11_ResetState ==
    /\ (phase = "step" /\ steps >= 1) =>
          LET v == Mmu_read_word(emu.memory, 65534)
          IN  emu.cpu = [a |-> 0, b |-> 0, c |-> 0, d |-> 0, sp |-> 32512,
                         pc |-> v, flags |-> IF v = 0 THEN Pow2(HALT) ELSE 0]
    /\ (phase = "cpu" /\ steps >= 1 /\ ~crashed) =>
          /\ cpu.a = 0 /\ cpu.b = 0 /\ cpu.c = 0 /\ cpu.d = 0
          /\ cpu.sp = 32512
          /\ cpu.pc = VectorInRom
          /\ cpu.flags = IF VectorInRom = 0 THEN Pow2(HALT) ELSE 0

\* C12: reset is idempotent and changes no memory: the CPU state after
\* reset(); reset() equals the CPU state after one reset(), and the memory
\* after a reset equals the memory before it.
C12_ResetIdempotent ==
    /\ (phase = "step" /\ steps >= 1) => emu.memory = prev.memory
    /\ (phase = "step" /\ steps >= 2) => emu.cpu = prev.cpu
    /\ (phase = "cpu" /\ steps >= 1) =>
          /\ ~crashed
          /\ ram = prev.ram /\ rom = prev.rom /\ locked = prev.locked
    /\ (phase = "cpu" /\ steps >= 2) => cpu = prev.cpu

\* Two resets of the Step draft from a machine with non-zero registers and a
\* non-zero vector
C12_Witness ==
    /\ phase = "step" /\ steps = 2
    /\ prev2.cpu.a # 0 /\ prev2.cpu.pc # 0 /\ prev2.cpu.flags # 0
    /\ emu.cpu.pc = 4660
    /\ emu.cpu = prev.cpu

(***************************************************************************)
(* The Step draft (SpecStep).                                              *)
(***************************************************************************)
\* A call of step() has just returned
Stepped == phase = "ready" /\ steps >= 1 /\ decoded.act = "step"

\* The bytes of the instruction the last step() started at
ByteAt(k) == Mmu_read_byte(prev.memory, wrapping_add(prev.cpu.pc, k))

\* C13: when HALT is set, step() is a no-op: registers, PC, SP, flags and
\* memory are unchanged by the call.
C13_HaltedStepNoOp ==
    (Stepped /\ Bit(prev.cpu.flags, HALT) = 1) =>
        (emu.cpu = prev.cpu /\ emu.memory = prev.memory)

\* C14: when step() fails to decode, the error is returned and the machine
\* state is the state before the call; in particular PC is not advanced.
C14_DecodeErrorKeepsState ==
    (Stepped /\ decoded.err \in {"InvalidOpcode", "RegisterIndexError", "InvalidCondition"}) =>
        (emu.cpu = prev.cpu /\ emu.memory = prev.memory)

\* The conditional opcodes (mode 0x30), the position of their condition
\* byte and their encoded length: opcode, condition, then an 8-bit offset or
\* a 16-bit target; the conditional MOV is opcode, register pair, condition
ConditionalOps == 48 .. 55
CondByte == IF decoded.op = 51 THEN ByteAt(2) ELSE ByteAt(1)
CondLength == IF decoded.op \in {48, 51} THEN 3 ELSE 4
CondDecodes == decoded.op # 51 \/ pair_from(ByteAt(1)).ok

\* C16: a conditional branch whose condition is not met leaves PC at the
\* address of the next instruction, past the condition byte and the whole
\* target operand, and changes no other register, no flag and no memory.
C16_FailedBranchSkipsOperand ==
    (/\ Stepped
     /\ decoded.op \in ConditionalOps
     /\ CondDecodes
     /\ CondByte \in (0 .. 15) \ {4, 12}
     /\ ~meets(ConditionCode_try_from(CondByte), prev.cpu.flags)) =>
        /\ decoded.err = "-"
        /\ emu.cpu = [prev.cpu EXCEPT !.pc = wrapping_add(@, CondLength)]
        /\ emu.memory = prev.memory

\* C18: condition codes 0x4 and 0xC are reserved: a conditional instruction
\* whose condition byte is 0x4 or 0xC is rejected with InvalidCondition.
C18_ReservedConditionsRejected ==
    (/\ Stepped
     /\ decoded.op \in ConditionalOps
     /\ CondDecodes
     /\ CondByte \in {4, 12}) =>
        decoded.err = "InvalidCondition"

\* The call opcodes (mode 0x38) that branch, and their encoded length
CallOps == {56, 57, 58, 60, 61, 62, 63}
CallLength == IF decoded.op = 56 THEN 2 ELSE 3

\* C20: a call pushes the current PC before branching, so that after the
\* call and a return (pop into PC) PC is the address of the instruction
\* immediately following the call and SP has its value before the call.
C20_CallReturn ==
    (/\ phase = "ready" /\ steps >= 2
     /\ decoded.act = "return"
     /\ decoded.op \in CallOps) =>
        /\ emu.cpu.pc = wrapping_add(prev2.cpu.pc, CallLength)
        /\ emu.cpu.sp = prev2.cpu.sp

(***************************************************************************)
(* The decoders (SpecDecode).                                              *)
(***************************************************************************)
\* The opcode bytes the ISA of src/src/isa.rs defines: the first bytes the
\* encoder emits, and the encoded length that goes with each
DefinedOpcodes == {Isa_encode(i)[1] : i \in IsaInstructions({0}, 0 .. 15)}
EncodedLength(opcode) ==
    Len(Isa_encode(CHOOSE i \in IsaInstructions({0}, 0 .. 15) : Isa_encode(i)[1] = opcode))

\* C15: the decoder returns InvalidOpcode(b) for every opcode byte b the ISA
\* does not define and EndOfInput whenever the input ends before all operand
\* bytes of a defined opcode have been read; it never panics and never
\* returns an instruction in those cases.
C15_DecoderRejects ==
    /\ phase \in {"isa", "main"} => decoded.err # "unimplemented"
    /\ phase = "main" =>
          (Len(bytes) = 0 => (~decoded.ok /\ decoded.err = "EndOfInput"))
    /\ phase = "isa" =>
          /\ (Len(bytes) >= 1 /\ bytes[1] \notin DefinedOpcodes) =>
                (~decoded.ok /\ decoded.err = "InvalidOpcode" /\ decoded.count = bytes[1])
          /\ (Len(bytes) = 0
              \/ (Len(bytes) >= 1 /\ bytes[1] \in DefinedOpcodes
                  /\ Len(bytes) < EncodedLength(bytes[1]))) =>
                (~decoded.ok /\ decoded.err = "EndOfInput")


\* The predicate the condition table assigns to the numeric code c, on the
\* ZERO, SIGN, CARRY and OVERFLOW bits of flags (codes 4 and 12 are reserved
\* and have no row).
TablePredicate(c, flags) ==
    LET z == Bit(flags, ZERO) = 1
        s == Bit(flags, SIGN) = 1
        cy == Bit(flags, CARRY) = 1
        o == Bit(flags, OVERFLOW) = 1
    IN  CASE c = 0 -> z [] c = 1 -> s [] c = 2 -> cy [] c = 3 -> o
          [] c = 5 -> cy \/ z [] c = 6 -> s # o [] c = 7 -> z \/ (s # o)
          [] c = 8 -> ~z [] c = 9 -> ~s [] c = 10 -> ~cy [] c = 11 -> ~o
          [] c = 13 -> ~cy /\ ~z [] c = 14 -> s = o [] c = 15 -> ~z /\ (s = o)

\* C17: a conditional jump with condition code c is taken (PC becomes the
\* target) if and only if the predicate the condition table assigns to c
\* holds on the flags the jump found.
C17_JumpTakenIffTable ==
    (phase = "jumped" /\ last.op = "JumpIf" /\ last.n \notin {4, 12})
        => ((cpu.pc = last.val) <=> TablePredicate(last.n, prev.cpu.flags))


\* The alias groups of the condition table.
TableAliases ==
    {{"Z", "EQ", "E"}, {"C", "B", "NAE"}, {"BE", "NA"}, {"L", "NGE", "LT"},
     {"LE", "NG"}, {"NZ", "NE"}, {"NC", "A", "NBE"}, {"NB", "AE"},
     {"NL", "GE"}, {"NLE", "G"}}

\* The same groups with NC moved from A/NBE to NB/AE.
ParsedAliases ==
    (TableAliases \ {{"NC", "A", "NBE"}, {"NB", "AE"}})
        \cup {{"A", "NBE"}, {"NC", "NB", "AE"}}

\* Any two evaluated mnemonics of one group were both accepted and have the
\* same truth value on the flags.
AliasesAgree(groups) ==
    \A i \in DOMAIN decoded, j \in DOMAIN decoded :
        (\E g \in groups : decoded[i].name \in g /\ decoded[j].name \in g)
            => /\ decoded[i].ok /\ decoded[j].ok
               /\ decoded[i].holds = decoded[j].holds

Entered == steps >= 1 /\ last.op = "WaitForInterrupt" /\ prev.cpu.ir_flags # 0

\* The little-endian word of the cartridge at 0xFFFE.
VectorWord == Peek(rom, 32766) + 256 * Peek(rom, 32767)

\* C21: interrupt entry pushes PC and FLAGS and loads PC from the vector at
\* 0xFFFE; after entry followed by IRET with no other request pending, PC,
\* FLAGS and SP have the values they had immediately before the entry.
C21_InterruptRoundTrip ==
    /\ Entered => ~crashed /\ cpu.pc = VectorWord
    /\ (/\ steps = 2
        /\ last2.op = "WaitForInterrupt" /\ prev2.cpu.ir_flags # 0
        /\ last.op = "ReturnFromInterrupt" /\ prev.cpu.ir_flags = 0)
       => /\ ~crashed
          /\ cpu.pc = wrapping_add(prev2.cpu.pc, byte_length(last2))
          /\ cpu.flags = prev2.cpu.flags
          /\ cpu.sp = prev2.cpu.sp

\* C22: an interrupt is dispatched only where ENABLE_INTERRUPT is set and a
\* request is pending; while ENABLE_INTERRUPT is clear, a step that is not
\* an explicit request clear pushes no frame and consumes no request.
C22_DispatchOnlyWhenEnabled ==
    (/\ steps >= 1
     /\ last.op \in {"WaitForInterrupt", "ReturnFromInterrupt"}
     /\ Bit(prev.cpu.flags, INTERRUPT) = 0
     /\ ~crashed)
        => /\ BitAndN(cpu.ir_flags, prev.cpu.ir_flags, 16) = prev.cpu.ir_flags
           /\ last.op = "WaitForInterrupt" => cpu.sp = prev.cpu.sp


\* C23: running the hello program from reset with the driver loop, the port
\* at 0x7F00 receives exactly the bytes of the message, in order; the run
\* does not abort; it ends with HALT set and PC just after the halting
\* instruction (0x800B).
C23_HelloRun ==
    phase = "running"
        => /\ ~crashed
           /\ Len(stdout) <= Len(bytes)
           /\ stdout = SubSeq(bytes, 1, Len(stdout))
           /\ Bit(cpu.flags, HALT) = 1 => stdout = bytes /\ cpu.pc = 32779


\* The instruction writes only bytes of the cartridge (0x8000-0xFFFF) when
\* run on machine s.
WritesRomOnly(i, s) ==
    \/ i.op = "StoreAddressAbsolute" /\ i.val >= 32768
    \/ i.op = "StoreWordAbsolute" /\ i.val >= 32768 /\ i.val < 65535
    \/ i.op \in {"PushRegister", "Call"} /\ s.cpu.sp >= 32770

\* C24: while the cartridge is locked no byte or word write of any
\* instruction changes a ROM byte, and a write to the locked ROM does not
\* abort the step.
C24_LockedRomUnchanged ==
    (phase = "ready" /\ locked)
        => /\ rom = MapImage
           /\ (steps >= 1 /\ ~prev.crashed /\ WritesRomOnly(last, prev))
                 => ~crashed

\* A word store of 0x1234 to 0x9000, where the image holds 7, on the locked
\* cartridge.
C24_Witness ==
    /\ phase = "ready" /\ locked /\ steps >= 1 /\ ~crashed
    /\ last.op = "StoreWordAbsolute" /\ last.val = 36864
    /\ prev.cpu.a = 4660
    /\ Peek(rom, 4096) = 7

\* The instruction is a byte load or store at an absolute address outside
\* the memory map (RAM 0x0000-0x2FFF, the port 0x7F00, ROM 0x8000-0xFFFF).
OutsideMap(i) ==
    /\ i.op \in {"LoadAddressAbsolute", "StoreAddressAbsolute"}
    /\ i.val >= 12288 /\ i.val < 32768 /\ i.val # 32512

\* C25: a step whose instruction accesses an address outside the memory map
\* reports an addressing error and leaves registers, PC, SP, flags and
\* memory as they were before the step.
C25_BadAddressKeepsState ==
    (steps >= 1 /\ ~prev.crashed /\ OutsideMap(last))
        => /\ crashed
           /\ cpu = prev.cpu
           /\ ram = prev.ram /\ rom = prev.rom /\ stdout = prev.stdout

\* C26: every address in 0x0000-0x2FFF is readable and writable RAM: a load
\* returns the byte last stored there, 0 before any store.
C26_RamReadsBack ==
    (/\ steps >= 1 /\ ~prev.crashed
     /\ last.op = "LoadAddressAbsolute" /\ last.val < 12288)
        => /\ ~crashed
           /\ cpu.a = Peek(prev.ram, last.val)
           /\ (steps = 2 /\ last2.op = "StoreAddressAbsolute"
               /\ last2.val = last.val)
                 => cpu.a = prev2.cpu.a % 256


\* The register codes of the claim, by the tag the decoder returns.
RegisterCode ==
    [a |-> 0, b |-> 1, c |-> 2, d |-> 3, sp |-> 5, pc |-> 6, flags |-> 7]

\* The tag of the register an operand string names.
RegisterTag(string) ==
    CASE to_uppercase(string) = "A" -> "a" [] to_uppercase(string) = "B" -> "b"
      [] to_uppercase(string) = "C" -> "c" [] to_uppercase(string) = "D" -> "d"
      [] to_uppercase(string) = "SP" -> "sp" [] to_uppercase(string) = "PC" -> "pc"
      [] to_uppercase(string) = "FLAGS" -> "flags"

\* C27: with the codes A=0, B=1, C=2, D=3, SP=5, PC=6, FLAGS=7 the pair byte
\* is (code(dst) << 4) | code(src); decoding the byte emitted for (dst, src)
\* returns (dst, src); a byte with a nibble equal to 4 or above 7 is rejected.
C27_RegisterPairRoundTrip ==
    /\ phase \in {"emitted", "decoded"}
          => bytes = <<RegisterCode[RegisterTag(arr[1])] * 16
                       + RegisterCode[RegisterTag(arr[2])]>>
    /\ phase = "decoded"
          => /\ decoded.ok
             /\ decoded.dst = RegisterTag(arr[1])
             /\ decoded.src = RegisterTag(arr[2])
    /\ (phase = "raw" /\ \E n \in {bytes[1] \div 16, bytes[1] % 16} :
                             n = 4 \/ n > 7)
          => ~decoded.ok

\* The pair (SP, FLAGS), emitted as 0x57 and decoded.
C27_Witness ==
    /\ phase = "decoded"
    /\ arr = <<"SP", "FLAGS">> /\ bytes = <<87>>
    /\ decoded.dst = "sp" /\ decoded.src = "flags"


\* The number of bytes a line adds to the output.
LineSize(line) ==
    CASE line.body.kind = "ins" ->
           1 + (IF line.body.type = "None" THEN 0 ELSE OperandWidth(line.body.type))
      [] line.body.kind = "db" -> 1
      [] line.body.kind = "dw" -> 2
      [] OTHER -> 0

\* The output offset of line i of a source without .org.
RECURSIVE LineOffset(_, _)
LineOffset(source, i) ==
    IF i = 1 THEN 0 ELSE LineOffset(source, i - 1) + LineSize(source[i - 1])

NoOrg(source) == \A i \in DOMAIN source : source[i].body.kind # "org"

\* The lines that bind sym as a label, and the lines that bind it at all.
LabelLines(source, sym) == {i \in DOMAIN source : source[i].label = sym}
BoundSomewhere(source, sym) ==
    \E i \in DOMAIN source :
        \/ source[i].label = sym
        \/ source[i].body.kind = "def" /\ source[i].body.sym = sym

\* The instructions of the source whose operand names sym, by operand width.
OperandRefs(source, sym, widths) ==
    {i \in DOMAIN source :
        /\ source[i].body.kind = "ins" /\ source[i].body.type # "None"
        /\ source[i].body.val.sym = sym
        /\ OperandWidth(source[i].body.type) \in widths}

\* In a source without .org that binds L once, at offset k: every reference
\* to L in an operand of one of the widths does not fail for L, and the two
\* bytes at the operand encode 0x8000 + k little-endian.
ResolvesL(widths) ==
    (phase = "compiled" /\ NoOrg(arr) /\ Cardinality(LabelLines(arr, "L")) = 1)
        => LET k == LineOffset(arr, CHOOSE i \in LabelLines(arr, "L") : TRUE)
           IN  \A i \in OperandRefs(arr, "L", widths) :
                  /\ decoded.err = "UndefinedSymbol"
                        => ~BoundSomewhere(arr, "M")
                  /\ decoded.err = "-" =>
                        /\ Peek(decoded.data, LineOffset(arr, i) + 1)
                              = (START_ADDRESS + k) % 256
                        /\ Peek(decoded.data, LineOffset(arr, i) + 2)
                              = (START_ADDRESS + k) \div 256

FitsWidth1(v) == v <= 255 \/ (v >= 65408 /\ v <= 65535)

\* C29: when the scan has succeeded and every patched symbol is bound, a
\* width-1 patch whose symbol resolves outside [-128, 255] makes assembly
\* fail with SymbolOutOfRange.
C29_Width1OutOfRange ==
    (/\ phase = "compiled"
     /\ decoded.err \in {"-", "SymbolOutOfRange"}
     /\ \E k \in DOMAIN decoded.errata :
           /\ decoded.errata[k].len = 1
           /\ ~FitsWidth1(decoded.symbols[decoded.errata[k].sym]))
        => decoded.err = "SymbolOutOfRange"

\* C30: once the whole source has been scanned, assembly fails with
\* UndefinedSymbol, without a line number, if and only if some recorded
\* patch names a symbol that no label and no .def of the source binds.
C30_UndefinedSymbol ==
    (phase = "compiled" /\ decoded.err # "DirectiveError(UndefinedSymbol)")
        => ((decoded.err = "UndefinedSymbol" /\ decoded.line = -1)
              <=> \E k \in DOMAIN decoded.errata :
                     ~BoundSomewhere(arr, decoded.errata[k].sym))

\* A source that uses L before the line that binds it and M, which nothing
\* binds: assembly fails with UndefinedSymbol, for M.
C30_Witness ==
    /\ phase = "compiled"
    /\ decoded.err = "UndefinedSymbol" /\ decoded.line = -1
    /\ Len(arr) = 3
    /\ 1 \in OperandRefs(arr, "L", {2})
    /\ 2 \in OperandRefs(arr, "M", {1, 2})
    /\ arr[3].label = "L"


\* C37: WaitForInterrupt executed while no request is pending leaves the
\* whole machine as it was, PC at the instruction again.
C37_IdleWaitKeepsState ==
    (steps >= 1 /\ last.op = "WaitForInterrupt" /\ prev.cpu.ir_flags = 0)
        => Machine = prev

\* Two idle waits in a row at 0x8000.
C37_Witness ==
    /\ steps = 2
    /\ last2.op = "WaitForInterrupt" /\ prev2.cpu.ir_flags = 0
    /\ last.op = "WaitForInterrupt" /\ prev.cpu.ir_flags = 0
    /\ prev2.cpu.pc = 32768 /\ cpu.pc = 32768

\* The request word without its lowest set bit.
WithoutLowest(r) == r - Pow2(trailing_zeros(r))

\* C38: a dispatch, by WaitForInterrupt or by a return from interrupt with
\* a request pending, completes and clears the lowest pending request and
\* no other.
C38_AscendingService ==
    (/\ steps >= 1
     /\ last.op \in {"WaitForInterrupt", "ReturnFromInterrupt"}
     /\ prev.cpu.ir_flags # 0)
        => /\ ~crashed
           /\ cpu.ir_flags = WithoutLowest(prev.cpu.ir_flags)


\* C39: the handler is entered at most once for each call of interrupt().
C39_OneDispatchPerCall ==
    phase = "ready" => decoded.dispatches <= decoded.calls


\* The address a LOOP instruction branches to, from the state before it.
LoopTarget(i, e) ==
    CASE i.op = "Loop" -> i.val
      [] i.op = "LoopOffset" -> (e.b + i.val) % W16
      [] i.op = "LoopRelative" -> (e.pc + 3 + i.val) % W16

\* C35: a LOOP instruction leaves C one less modulo 2^16, PC at its target
\* if and only if the new C is not zero and after the instruction
\* otherwise, and everything else as it was.
C35_LoopDecrementsAndBranches ==
    (phase = "done" /\ last.op \in LoopOps)
        => LET c == (prev.c + W16 - 1) % W16
           IN  emu = [prev EXCEPT
                        !.c = c,
                        !.pc = IF c # 0 THEN LoopTarget(last, prev)
                               ELSE (prev.pc + 3) % W16]

\* LOOP with C = 0 has wrapped C to 0xFFFF and branched.
C35_Witness ==
    /\ phase = "done" /\ last.op = "Loop" /\ last.val = 4660
    /\ prev.c = 0 /\ emu.c = 65535 /\ emu.pc = 4660

\* LOOP with C = 1 has fallen through.
C35_WitnessFallThrough ==
    /\ phase = "done" /\ last.op = "LoopRelative"
    /\ prev.c = 1 /\ emu.c = 0 /\ emu.pc = prev.pc + 3


\* C36: a one-byte read or write at position p goes to the first device at
\* offset p when p < len_first and to the second device at offset
\* p - len_first otherwise; the position advances by the number of bytes
\* transferred; a read at or beyond the total length returns no byte.
C36_ChainRoutesByPosition ==
    (phase = "chained" /\ decoded.op \in {"read", "write"} /\ decoded.n = 1)
        => LET p == decoded.at
               total == prev.len_first + prev.len_second
               got == Len(decoded.data)
           IN  /\ emu.pos = p + got
               /\ got = IF p < total THEN 1 ELSE 0
               /\ decoded.op = "read" =>
                     /\ emu.first.data = prev.first.data
                     /\ emu.second.data = prev.second.data
                     /\ p < prev.len_first => decoded.data = <<prev.first.data[p + 1]>>
                     /\ (p >= prev.len_first /\ p < total) =>
                           decoded.data = <<prev.second.data[p - prev.len_first + 1]>>
               /\ decoded.op = "write" =>
                     /\ p < prev.len_first =>
                           /\ emu.first.data = [prev.first.data EXCEPT ![p + 1] = 77]
                           /\ emu.second.data = prev.second.data
                     /\ (p >= prev.len_first /\ p < total) =>
                           /\ emu.first.data = prev.first.data
                           /\ emu.second.data =
                                 [prev.second.data EXCEPT ![p - prev.len_first + 1] = 77]
                     /\ p >= total =>
                           /\ emu.first.data = prev.first.data
                           /\ emu.second.data = prev.second.data

\* A byte written into the second device through the chain is read back
\* from the same position.
C36_Witness ==
    /\ phase = "chained" /\ decoded.op = "read" /\ decoded.n = 1
    /\ decoded.at = LenFirst + 1
    /\ decoded.data = <<77>>
    /\ emu.second.data[2] = 77
    /\ emu.pos = LenFirst + 2


\* One row of the table tried alone against the operands the line was
\* written with.
RowTry(i) ==
    match_operands(arr.table[i].schema, arr.ops, <<arr.table[i].opcode>>, <<>>,
                   KeptError(0, "none", 0), 0)

\* The rows that have the line's mnemonic.
Candidates == {i \in DOMAIN arr.table : arr.table[i].mnem = arr.mnem}

\* C31: when rows with the line's mnemonic match the operands, the bytes
\* emitted are those of the first such row in table order.
C31_FirstMatchingRowWins ==
    phase = "parsed" =>
        LET hits == {i \in Candidates : RowTry(i).ok}
        IN  hits # {} =>
               LET first == CHOOSE i \in hits : \A j \in hits : i <= j
               IN  /\ decoded.ok
                   /\ decoded.bytes = RowTry(first).bytes
                   /\ decoded.symbols = RowTry(first).symbols

\* "JMP 5" matches the Offset row and the Address row; the Offset row comes
\* first and gives the bytes.
C31_Witness ==
    /\ phase = "parsed"
    /\ arr.table = INSTRUCTIONS /\ arr.mnem = "JMP" /\ arr.ops = <<(<<"5">>)>>
    /\ RowTry(2).ok /\ RowTry(3).ok
    /\ decoded.ok /\ decoded.bytes = <<40, 5>>

\* The number of the operand at which a row stopped: the operand of its
\* error, or the operand it lacked.
RowReach(i) ==
    IF RowTry(i).last_err.err = "none" THEN Len(arr.ops) + 1
    ELSE RowTry(i).last_err.at

\* C32: when no row matches, the error reported is the error of a row with
\* the line's mnemonic that reached the highest operand.
C32_DeepestError ==
    (phase = "parsed" /\ ~decoded.ok /\ Candidates # {})
        => \E i \in Candidates :
              /\ \A j \in Candidates : RowReach(j) <= RowReach(i)
              /\ decoded.err = RowTry(i).last_err.err
              /\ decoded.at = RowTry(i).last_err.at

\* C40: InvalidMnemonic is reported only when no row has the line's
\* mnemonic.
C40_InvalidMnemonicOnlyUnknown ==
    (phase = "parsed" /\ ~decoded.ok /\ decoded.err = "InvalidMnemonic")
        => Candidates = {}


\* C33: the bytes emitted, the labels bound and the outcome of a line are
\* the same with and without its comment.
C33_CommentHasNoEffect ==
    phase = "assembled"
        => /\ decoded.err = arr.plain.err
           /\ decoded.data = arr.plain.data
           /\ decoded.len = arr.plain.len
           /\ decoded.symbols = arr.plain.symbols

\* C34: no entry of the symbol table has a name that parses as a register.
C34_NoRegisterNamedSymbol ==
    phase = "assembled"
        => \A s \in DOMAIN decoded.symbols : ~parse_register(s).ok

====
